---- MODULE Spec2Model ----
(***************************************************************************)
(* PocketFlow-Typescript: the node lifecycle with its retry loop, the      *)
(* sequential and parallel batch nodes, and the Flow transition function.  *)
(*                                                                         *)
(* One node object is run once.  Every call of Node._exec (one for a plain *)
(* node, one per item for a batch node) is an activation; all activations  *)
(* of a run are calls on the same object and so share this.curRetry.  A    *)
(* step of the model is the code that runs between two awaits.             *)
(*                                                                         *)
(* A Flow run is the stack of open Flow._run calls over a heap of objects: *)
(* the canonical objects a program built and the clone _orch makes for     *)
(* every turn.  SpecOrch runs nested Flows over plain nodes, SpecCycle the *)
(* cycle program of the tests, SpecTwin the traversals a ParallelBatchFlow *)
(* starts from one canonical node.                                         *)
(***************************************************************************)
EXTENDS Integers, Sequences, FiniteSets, TLC

\* Largest maxRetries a node is constructed with.
MaxRetries == 3
\* Largest number of items prep hands to a batch node.
MaxItems == 2
\* Number of distinct prep results of a plain node.
MaxPrep == 2

VARIABLES
    kind,         \* class of the node that is run: "node", "seq" or "par"
    maxRetries,   \* Node.maxRetries
    wait,         \* Node.wait
    fallback,     \* "default": execFallback rethrows; "value": overridden, returns a value
    prepRes,      \* what prep returned: a value (node) or the item list (batch)
    prepAbsent,   \* prep of a batch node returned nothing (prepRes is not looked at)
    curRetry,     \* this.curRetry of the node object
    act,          \* the activations of Node._exec, by position
    results,      \* SequentialBatchNode: results; ParallelBatchNode: values of Promise.all
    collected,    \* activations whose settlement the caller has consumed, in that order
    order,        \* activations in the order of their first call of exec
    agg,          \* promise returned by the node's own _exec
    aggErr,       \* the error that promise was rejected with
    runPc,        \* position of _run: "prep", "exec", "post", "done", "failed"
    prepCalls,    \* calls of prep
    postCalls,    \* calls of post
    postSeen,     \* arguments and this.curRetry seen by post
    runErr,       \* the error _run was rejected with
    successors,   \* BaseNode.successors of every canonical node of the graph
    wired,        \* calls of next made while the graph was wired
    overwrites,   \* "Overwriting successor" warnings
    flowPc,       \* the Flow: "wiring", "running", "ended"
    curr,         \* _orch: the node the traversal stands at
    prev,         \* _orch: the node whose clone ran last
    lastResult,   \* _orch: what the last node's _run returned
    flowWarnings, \* "Flow ends" warnings
    build,        \* which program built the objects of a nested run
    start,        \* Flow.start of every Flow object
    flowPost,     \* "default": a Flow's post returns nothing; "passes": overridden, returns execRes
    heap,         \* params and curRetry of every object, canonical or clone
    frames,       \* the calls of Flow._run that are open, outermost first
    trace,        \* the calls of prep and post so far, in order
    runRet,       \* what the _run that settled last returned
    orchPc,       \* the outermost run: "idle", "running", "ended", "failed"
    flowRet,      \* what the outermost run returned
    orchErr,      \* the error the outermost run was rejected with
    shared,       \* the shared store of the cycle program: current, once it is set
    numberArg,    \* the cycle program: the argument of NumberNode
    addArg,       \* the cycle program: the argument of AddNode
    applied,      \* the cycle program: calls of AddNode.prep
    twPc,         \* per traversal of a ParallelBatchFlow: position of its node's _run
    twAct,        \* per traversal: the activation of Node._exec on its node object
    twSeen,       \* per traversal: exec result and this.curRetry seen by post
    bfMode,       \* class of the batch flow: "seq" or "par"
    bfNested,     \* the start node of the batch flow is itself a batch flow
    bfBase,       \* this.params of the batch flow
    bfSets,       \* the param sets its prep returned
    bfInner,      \* the param sets the prep of the inner batch flow returns
    bfPc,         \* _run of the batch flow: "off", "idle", "loop", "ended", "failed"
    bfTrav,       \* per param set: the _orch call made for it
    bfSeen,       \* the node runs so far, each with the params the node had
    bfShared,     \* the writes the nodes made to the shared store
    bfResult,     \* `result` of SequentialBatchFlow._run
    bfOut,        \* post of the batch flow (called, execRes) and the error of run
    injImpl,      \* the Flow class that is run: "part_002" (start node) or "index" (successors)
    injFlow,      \* this.params of the flow after flow.setParams(P)
    injOwn,       \* the nodes were given params of their own with setParams
    injPc,        \* flow.run(shared): "off", "idle", "running", "ended"
    injCurr,      \* curr of the loop
    injP,         \* p of the loop
    injSeen,      \* the node runs so far, each with the params the node had
    fanBatches,   \* sharedStorage['batches'] of the parallel batch flow program
    fanPc,        \* runAsync of the AsyncParallelBatchFlow: "off", "idle", "running", "ended"
    fanTrav,      \* per batch: the _orchAsync call made for it
    sharedStorage, \* processed_numbers and total of the shared store
    concurrency,  \* the permits the Semaphore was constructed with
    permits,      \* Semaphore.permits
    queue,        \* Semaphore.queue: the tasks whose acquire is pending
    semTask       \* per task: "idle", "waiting", "woken", "holding", and its acquires

cfgVars == <<kind, maxRetries, wait, fallback, prepRes, prepAbsent>>
batchVars == <<results, collected, order, agg, aggErr>>
runVars == <<runPc, prepCalls, postCalls, postSeen, runErr>>
nodeVars == <<cfgVars, curRetry, act, batchVars, runVars>>
graphVars == <<successors, wired, overwrites>>
flowVars == <<graphVars, flowPc, curr, prev, lastResult, flowWarnings>>
orchVars == <<build, start, flowPost, heap, frames, trace, runRet, orchPc, flowRet, orchErr>>
cycleVars == <<shared, numberArg, addArg, applied>>
twinVars == <<twPc, twAct, twSeen>>
bfCfgVars == <<bfMode, bfNested, bfBase, bfSets, bfInner>>
bfVars == <<bfCfgVars, bfPc, bfTrav, bfSeen, bfShared, bfResult, bfOut>>
injVars == <<injImpl, injFlow, injOwn, injPc, injCurr, injP, injSeen>>
fanVars == <<fanBatches, fanPc, fanTrav, sharedStorage>>
semVars == <<concurrency, permits, queue, semTask>>
parVars == <<fanVars, semVars>>
sideVars == <<cycleVars, twinVars, bfVars, injVars, parVars>>
outerVars == <<orchVars, sideVars>>
vars == <<nodeVars, flowVars, outerVars>>

\* ------------------------------------------------------------------ values

\* A value that exec, execFallback or the retry loop produced, or an error exec raised:
\* tag says which, arg is the prepRes/item of the call, att the attempt it comes from.
Val(tag, arg, att) == [tag |-> tag, arg |-> arg, att |-> att]
None == Val("none", 0, 0)
\* part_002:76 `return null`
Null == Val("null", 0, 0)
\* result of the att-th call of exec(arg)
ExecValue(arg, att) == Val("ok", arg, att)
\* error raised by the att-th call of exec(arg)
ExecError(arg, att) == Val("err", arg, att)
\* value an overridden execFallback(prepRes, exc) returns: built from its two arguments
FallbackValue(arg, exc) == Val("fb", arg, exc.att)

NewAct(arg) ==
    [pc |-> "new", arg |-> arg, attempts |-> 0, waits |-> 0, fbCalls |-> 0,
     fbArg |-> 0, fbExc |-> None, ret |-> None, err |-> None]

\* ------------------------------------------------------------- Node._exec

\* part_002:64 the loop test `this.curRetry < this.maxRetries`
LoopTest(cr) == cr < maxRetries

\* (variant: the test compares with maxRetries itself)
IsLastAttemptOffByOne(cr) == cr = maxRetries
\* part_002:68 `this.curRetry === this.maxRetries - 1`
IsLastAttempt(cr) == cr = maxRetries - 1

\* (variant: the counter skips a value)
NextRetryPlusTwo(cr) == cr + 2
\* part_002:64 `this.curRetry++`
NextRetry(cr) == cr + 1

\* (variant: no backoff between attempts)
BackoffNever == FALSE
\* part_002:71 `this.wait > 0`
Backoff == wait > 0

\* (variant: a retry is handed a prep result computed anew)
LoopHeadRePrep(a, cr) ==
    IF cr < maxRetries
    THEN [a EXCEPT !.pc = "exec", !.attempts = @ + 1, !.arg = IF cr > 0 THEN @ + 1 ELSE @]
    ELSE [a EXCEPT !.pc = "returned", !.ret = Null]
\* part_002:64-66 and 76: the head of the for loop for activation a with the
\* counter at cr: either exec is called (and awaited) or the loop is left
\* and the function returns null.
LoopHead(a, cr) ==
    IF LoopTest(cr)
    THEN [a EXCEPT !.pc = "exec", !.attempts = @ + 1]
    ELSE [a EXCEPT !.pc = "returned", !.ret = Null]

\* i is a call of Node._exec that was made.  Nothing cancels a call: it runs on
\* whatever became of the promise of the node's own _exec.
InFlight(i) == i \in DOMAIN act

\* part_002:66 the awaited exec fulfils: _exec returns its result.
ExecResolve(i) ==
    /\ InFlight(i)
    /\ act[i].pc = "exec"
    /\ act' = [act EXCEPT ![i].pc = "returned",
                          ![i].ret = ExecValue(act[i].arg, act[i].attempts)]
    /\ UNCHANGED <<cfgVars, curRetry, batchVars, runVars, flowVars>>

\* part_002:67-74 the awaited exec rejects: the catch block, up to its next await.
ExecReject(i) ==
    /\ InFlight(i)
    /\ act[i].pc = "exec"
    /\ LET a == act[i]
           e == ExecError(a.arg, a.attempts)
       IN  IF IsLastAttempt(curRetry)
           THEN /\ act' = [act EXCEPT ![i].pc = "fallback", ![i].fbCalls = @ + 1,
                                      ![i].fbArg = a.arg, ![i].fbExc = e]
                /\ UNCHANGED curRetry
           ELSE IF Backoff
           THEN /\ act' = [act EXCEPT ![i].pc = "wait", ![i].waits = @ + 1]
                /\ UNCHANGED curRetry
           ELSE /\ curRetry' = NextRetry(curRetry)
                /\ act' = [act EXCEPT ![i] = LoopHead(a, NextRetry(curRetry))]
    /\ UNCHANGED <<cfgVars, batchVars, runVars, flowVars>>

\* part_002:72 the backoff timer fires: the loop's increment, test and next call.
TimerFire(i) ==
    /\ InFlight(i)
    /\ act[i].pc = "wait"
    /\ curRetry' = NextRetry(curRetry)
    /\ act' = [act EXCEPT ![i] = LoopHead(act[i], NextRetry(curRetry))]
    /\ UNCHANGED <<cfgVars, batchVars, runVars, flowVars>>

\* (variant: the catch block throws instead of returning what execFallback returns)
FallbackRethrows(i) ==
    /\ InFlight(i)
    /\ act[i].pc = "fallback"
    /\ act' = [act EXCEPT ![i].pc = "thrown", ![i].err = act[i].fbExc]
    /\ UNCHANGED <<cfgVars, curRetry, batchVars, runVars, flowVars>>

\* part_002:59-61 and 69: the awaited execFallback settles.  The default rethrows
\* the error it was given; an overriding one returns a substitute value.
FallbackSettle(i) ==
    /\ InFlight(i)
    /\ act[i].pc = "fallback"
    /\ IF fallback = "default"
       THEN act' = [act EXCEPT ![i].pc = "thrown", ![i].err = act[i].fbExc]
       ELSE act' = [act EXCEPT ![i].pc = "returned",
                               ![i].ret = FallbackValue(act[i].fbArg, act[i].fbExc)]
    /\ UNCHANGED <<cfgVars, curRetry, batchVars, runVars, flowVars>>

\* ------------------------------------------------------- the batch nodes

\* the activations whose settlement the caller has consumed
Collected == {collected[k] : k \in DOMAIN collected}

\* the items of a batch node
\* part_002:82 and 93 `!items || !items.length`: no list counts as the empty list
Items == IF kind = "node" THEN <<prepRes>> ELSE IF prepAbsent THEN <<>> ELSE prepRes
NumItems == Len(Items)

\* (variant: values are kept in the order in which the promises settle)
PlaceInCompletionOrder(res, i, v) == [res EXCEPT ![Len(collected) + 1] = v]
\* part_002:94 Promise.all puts the value of the i-th promise at index i.
PlaceResult(res, i, v) == [res EXCEPT ![i] = v]

\* the promise of activation i is fulfilled / rejected
ItemResolved(i) == i \in DOMAIN act /\ act[i].pc = "returned"
ItemFailed(i) == i \in DOMAIN act /\ act[i].pc = "thrown"

\* (variant: the sequential loop does not await either)
StartedAtLaunchAll(i) == TRUE
\* part_002:84-85 and 94: the calls of super._exec made before _exec first awaits:
\* the for loop awaits the first item's call, map makes every call.
StartedAtLaunch(i) == kind = "par" \/ i = 1

\* part_002:37-39 BaseNode._run up to the await of _exec: prep, then the call of
\* _exec, which runs up to its first await.
\*   Node._exec (63-66): the counter is reset and exec called.
\*   SequentialBatchNode._exec (81-85): the empty list returns []; else item 1 starts.
\*   ParallelBatchNode._exec (92-94): the empty list returns []; else map starts every
\*   item in turn, each call resetting the counter and calling exec.
RunPrep ==
    /\ runPc = "prep"
    /\ prepCalls' = prepCalls + 1
    /\ runPc' = "exec"
    /\ IF NumItems = 0
       THEN /\ agg' = "resolved"
            /\ UNCHANGED <<curRetry, act, results, order>>
       ELSE /\ curRetry' = 0
            /\ agg' = "pending"
            /\ act' = [i \in 1..NumItems |->
                         IF StartedAtLaunch(i)
                         THEN LoopHead(NewAct(Items[i]), 0)
                         ELSE NewAct(Items[i])]
            /\ order' = SelectSeq([i \in 1..NumItems |-> i], StartedAtLaunch)
            /\ results' = IF kind = "par" THEN [i \in 1..NumItems |-> None] ELSE <<>>
    /\ UNCHANGED <<cfgVars, collected, aggErr, postCalls, postSeen, runErr, flowVars>>

\* part_002:85 `results.push(await super._exec(item))` resumes with the item's
\* result, and the loop starts the next item or returns the results.
SeqCollect ==
    /\ kind = "seq"
    /\ agg = "pending"
    /\ LET i == Len(results) + 1
       IN  /\ ItemResolved(i)
           /\ results' = Append(results, act[i].ret)
           /\ collected' = Append(collected, i)
           /\ IF i < NumItems
              THEN /\ curRetry' = 0
                   /\ act' = [act EXCEPT ![i + 1] = LoopHead(act[i + 1], 0)]
                   /\ order' = Append(order, i + 1)
                   /\ UNCHANGED agg
              ELSE /\ agg' = "resolved"
                   /\ UNCHANGED <<curRetry, act, order>>
    /\ UNCHANGED <<cfgVars, aggErr, runVars, flowVars>>

\* (variant: a best-effort loop that records the failure and goes on)
SeqSkipFailed ==
    /\ kind = "seq"
    /\ agg = "pending"
    /\ LET i == Len(results) + 1
       IN  /\ ItemFailed(i)
           /\ results' = Append(results, Null)
           /\ collected' = Append(collected, i)
           /\ IF i < NumItems
              THEN /\ curRetry' = 0
                   /\ act' = [act EXCEPT ![i + 1] = LoopHead(act[i + 1], 0)]
                   /\ order' = Append(order, i + 1)
                   /\ UNCHANGED agg
              ELSE /\ agg' = "resolved"
                   /\ UNCHANGED <<curRetry, act, order>>
    /\ UNCHANGED <<cfgVars, aggErr, runVars, flowVars>>

\* part_002:85 the awaited call of the item rejects: _exec rejects with its error.
SeqAbort ==
    /\ kind = "seq"
    /\ agg = "pending"
    /\ LET i == Len(results) + 1
       IN  /\ ItemFailed(i)
           /\ collected' = Append(collected, i)
           /\ agg' = "rejected"
           /\ aggErr' = act[i].err
           /\ UNCHANGED <<curRetry, act, results, order>>
    /\ UNCHANGED <<cfgVars, runVars, flowVars>>

\* part_002:94 Promise.all learns that the promise of item i settled: a value goes
\* to index i and the last one fulfils the aggregate; the first rejection rejects it.
ParCollect(i) ==
    /\ kind = "par"
    /\ i \in DOMAIN act
    /\ i \notin Collected
    /\ act[i].pc \in {"returned", "thrown"}
    /\ collected' = Append(collected, i)
    /\ IF act[i].pc = "returned"
       THEN /\ results' = PlaceResult(results, i, act[i].ret)
            /\ agg' = IF agg = "pending"
                         /\ \A j \in DOMAIN act : j = i \/ (j \in Collected /\ act[j].pc = "returned")
                      THEN "resolved" ELSE agg
            /\ UNCHANGED aggErr
       ELSE /\ agg' = IF agg = "pending" THEN "rejected" ELSE agg
            /\ aggErr' = IF agg = "pending" THEN act[i].err ELSE aggErr
            /\ UNCHANGED results
    /\ UNCHANGED <<cfgVars, curRetry, act, order, runVars, flowVars>>

\* ----------------------------------------------------------- BaseNode._run

\* how the promise that _run awaits stands: the one activation of a plain node,
\* the aggregate of a batch node
ExecState ==
    IF kind = "node"
    THEN IF ItemResolved(1) THEN "resolved" ELSE IF ItemFailed(1) THEN "rejected" ELSE "pending"
    ELSE agg
ExecResult == IF kind = "node" THEN act[1].ret ELSE results
ExecFailure == IF kind = "node" THEN act[1].err ELSE aggErr

\* (variant: post is skipped when there was nothing to process)
RunPostNonEmpty ==
    /\ runPc = "exec"
    /\ ExecState = "resolved"
    /\ NumItems > 0
    /\ postCalls' = postCalls + 1
    /\ postSeen' = [prep |-> prepRes, exec |-> ExecResult, curRetry |-> curRetry]
    /\ runPc' = "done"
    /\ UNCHANGED <<cfgVars, curRetry, act, batchVars, prepCalls, runErr, flowVars>>

\* part_002:39-40 the await of _exec resumes with its value: post is called.
RunPost ==
    /\ runPc = "exec"
    /\ ExecState = "resolved"
    /\ postCalls' = postCalls + 1
    /\ postSeen' = [prep |-> prepRes, exec |-> ExecResult, curRetry |-> curRetry]
    /\ runPc' = "done"
    /\ UNCHANGED <<cfgVars, curRetry, act, batchVars, prepCalls, runErr, flowVars>>

\* part_002:39 the await of _exec throws: _run rejects and post is not reached.
RunFail ==
    /\ runPc = "exec"
    /\ ExecState = "rejected"
    /\ runErr' = ExecFailure
    /\ runPc' = "failed"
    /\ UNCHANGED <<cfgVars, curRetry, act, batchVars, prepCalls, postCalls, postSeen, flowVars>>

\* errors raised by prep and by post
PrepError == Val("prep", 0, 0)
PostError == Val("post", 0, 0)

\* (variant: a failing prep is called again, as exec is, up to maxRetries times)
PrepThrowRetried ==
    /\ runPc = "prep"
    /\ prepCalls' = prepCalls + 1
    /\ runErr' = IF prepCalls + 1 < maxRetries THEN runErr ELSE PrepError
    /\ runPc' = IF prepCalls + 1 < maxRetries THEN "prep" ELSE "failed"
    /\ UNCHANGED <<cfgVars, curRetry, act, batchVars, postCalls, postSeen, flowVars>>
\* part_002:38 `const p = await this.prep(shared)`: prep throws, outside any try:
\* _run rejects with the error, and neither _exec nor post is reached.
PrepThrow ==
    /\ runPc = "prep"
    /\ prepCalls' = prepCalls + 1
    /\ runErr' = PrepError
    /\ runPc' = "failed"
    /\ UNCHANGED <<cfgVars, curRetry, act, batchVars, postCalls, postSeen, flowVars>>

\* part_002:40 `return this.post(shared, p, e)`: post throws after _exec has
\* returned: _run rejects with the error.
PostThrow ==
    /\ runPc = "exec"
    /\ ExecState = "resolved"
    /\ postCalls' = postCalls + 1
    /\ postSeen' = [prep |-> prepRes, exec |-> ExecResult, curRetry |-> curRetry]
    /\ runErr' = PostError
    /\ runPc' = "failed"
    /\ UNCHANGED <<cfgVars, curRetry, act, batchVars, prepCalls, flowVars>>

\* ------------------------------------------------------------------ Flow

Nodes == {"n1", "n2", "n3"}
NoNode == "null"
\* part_002:5
DEFAULT_ACTION == "default"
Labels == {DEFAULT_ACTION, "positive", "negative"}
\* post returned nothing
Undefined == "undefined"
\* what post can return: nothing, the empty string, or a label
Actions == Labels \cup {Undefined, ""}
\* the start node of the Flow
StartNode == "n1"
\* Largest number of calls of next when the graph is wired.
MaxEdges == 3

\* Object.keys(node.successors)
SuccessorKeys(n) == {l \in Labels : successors[n][l] # NoNode}

\* part_002:17-23 BaseNode.next (and on, 25-27): the successor registered under the
\* label is replaced, with a warning when there was one.
Connect(src, tgt, action) ==
    /\ flowPc = "wiring"
    /\ wired < MaxEdges
    /\ wired' = wired + 1
    /\ overwrites' = IF action \in SuccessorKeys(src) THEN overwrites + 1 ELSE overwrites
    /\ successors' = [successors EXCEPT ![src][action] = tgt]
    /\ UNCHANGED <<nodeVars, flowPc, curr, prev, lastResult, flowWarnings>>

\* part_002:112 _orch starts at this.start
FlowStart ==
    /\ flowPc = "wiring"
    /\ flowPc' = "running"
    /\ curr' = StartNode
    /\ UNCHANGED <<nodeVars, graphVars, prev, lastResult, flowWarnings>>

\* (variant: the returned action is ignored)
AlwaysDefault(action) == DEFAULT_ACTION
\* part_002:104 `action || DEFAULT_ACTION`: undefined and '' are falsy
ActionKey(action) == IF action \in {Undefined, ""} THEN DEFAULT_ACTION ELSE action

\* (variant: without `|| DEFAULT_ACTION`)
LookupExact(n, action) == IF action \in Labels THEN successors[n][action] ELSE NoNode
\* part_002:104 and 108 `curr.successors[...]`, `next || null`
Lookup(n, action) == successors[n][ActionKey(action)]

\* (variant: a leaf warns too)
WarnsAlways(n, action) == Lookup(n, action) = NoNode
\* part_002:105 the condition of the warning
Warns(n, action) == Lookup(n, action) = NoNode /\ SuccessorKeys(n) # {}

\* part_002:103-109 Flow.getNextNode
GetNextNode(n, action) == Lookup(n, action)

\* part_002:116-125 one turn of the loop of _orch: the clone of curr is run, its
\* post returns action, and getNextNode picks the node of the next turn; the
\* loop ends when there is none.
FlowStep(action) ==
    /\ flowPc = "running"
    /\ prev' = curr
    /\ lastResult' = action
    /\ curr' = GetNextNode(curr, action)
    /\ flowWarnings' = IF Warns(curr, action) THEN flowWarnings + 1 ELSE flowWarnings
    /\ flowPc' = IF GetNextNode(curr, action) = NoNode THEN "ended" ELSE "running"
    /\ UNCHANGED <<nodeVars, graphVars>>

\* ------------------------------------------------- Flow._run and nesting

\* The objects a program constructs: Flows and plain Nodes.
Flows == {"top", "f1", "f2"}
PlainNodes == {"A", "B", "C"}
Objs == Flows \cup PlainNodes
\* part_002:116 the object created by the _orch call at depth k of the nesting
Clones == <<"c1", "c2", "c3">>
Addrs == Objs \cup {Clones[k] : k \in DOMAIN Clones}
\* Largest number of plain nodes one run enters.
MaxSteps == 4

\* The programs: the nesting example of the documentation, the three programs of
\* the composition tests, a branching graph with a cycle, a Flow without start.
Builds == {"docs", "levels", "nested", "chain", "branch", "nostart"}

\* the calls of next / on of each program, as <<source, action, target>>
Edges(b) ==
    CASE b = "docs"    -> {<<"A", DEFAULT_ACTION, "B">>, <<"f1", DEFAULT_ACTION, "C">>}
      [] b = "levels"  -> {<<"A", DEFAULT_ACTION, "B">>, <<"B", DEFAULT_ACTION, "C">>}
      [] b = "nested"  -> {<<"A", DEFAULT_ACTION, "B">>, <<"f1", DEFAULT_ACTION, "C">>}
      [] b = "chain"   -> {<<"A", DEFAULT_ACTION, "B">>, <<"B", DEFAULT_ACTION, "f2">>}
      [] b = "branch"  -> {<<"A", "positive", "B">>, <<"A", "negative", "C">>,
                           <<"B", DEFAULT_ACTION, "A">>}
      [] OTHER         -> {}

\* the argument of each `new Flow(...)`
StartOf(b) ==
    CASE b = "docs"    -> ("top" :> "f1" @@ "f1" :> "A" @@ "f2" :> NoNode)
      [] b = "levels"  -> ("top" :> "f2" @@ "f2" :> "f1" @@ "f1" :> "A")
      [] b = "nested"  -> ("top" :> "f2" @@ "f2" :> "f1" @@ "f1" :> "A")
      [] b = "chain"   -> ("top" :> "f1" @@ "f1" :> "A" @@ "f2" :> "C")
      [] b = "branch"  -> ("top" :> "A" @@ "f1" :> NoNode @@ "f2" :> NoNode)
      [] OTHER         -> ("top" :> NoNode @@ "f1" :> NoNode @@ "f2" :> NoNode)

\* the successors the calls of next leave in every object
Wiring(b) ==
    [n \in Objs |-> [l \in Labels |->
        IF \E e \in Edges(b) : e[1] = n /\ e[2] = l
        THEN (CHOOSE e \in Edges(b) : e[1] = n /\ e[2] = l)[3]
        ELSE NoNode]]

\* params: a record of keys; a key that is not set is Undefined
Keys == {"own", "run"}
NoParams == [k \in Keys |-> Undefined]
\* part_002:113 `{ ...a, ...b }`
Merge(a, b) == [k \in Keys |-> IF b[k] # Undefined THEN b[k] ELSE a[k]]
\* the params each object was given before the run (setParams, part_002:12-15)
OwnParams(n) == [NoParams EXCEPT !["own"] = n]

\* part_002:130 a call of Flow._run on the object at address self, made from the
\* canonical Flow n; pc is "orch" (prep called, _orch not begun), "node" / "flow"
\* (awaiting the _run of a node / Flow clone), "resumed" (that _run returned),
\* "post" (_orch returned)
NewFrame(self, n) ==
    [self |-> self, of |-> n, pc |-> "orch", curr |-> NoNode, last |-> Undefined, p |-> NoParams]

\* a call of prep (ret Undefined) or of post, which returned ret, on a clone of obj
Ev(ev, obj, ret) == [ev |-> ev, obj |-> obj, ret |-> ret]

Depth == Len(frames)
Top == frames[Depth]

\* (variant: the node is run in place, without a copy)
RunInPlace(n, k) == n
\* part_002:116-117 Object.create: node is a new object
NewObject(n, k) == Clones[k]

\* the plain node a clone of which is running, and the address of that clone
Running == Top.curr
RunningAddr == NewObject(Top.curr, Depth)

\* part_002:31 the default post returns nothing; an overriding one hands on execRes
FlowPostReturn(result) == IF flowPost = "default" THEN Undefined ELSE result

\* (variant: a Flow's prep hook is left out)
SkipFlowPrep(tr, n) == tr
\* part_002:131 Flow._run begins with `await this.prep(shared)`
CallFlowPrep(tr, n) == Append(tr, Ev("prep", n, Undefined))

\* plain nodes entered so far
NodeRuns == Cardinality({k \in DOMAIN trace : trace[k].ev = "prep" /\ trace[k].obj \in PlainNodes})
CanEnter(n) == n \in PlainNodes => NodeRuns < MaxSteps

\* the state of BaseNode._run for a node object that has not run yet
ResetRun(pc, cr) ==
    /\ runPc' = pc
    /\ prepCalls' = 0
    /\ postCalls' = 0
    /\ postSeen' = [prep |-> 0, exec |-> None, curRetry |-> 0]
    /\ runErr' = None
    /\ curRetry' = cr
    /\ act' = <<>>
    /\ results' = <<>>
    /\ collected' = <<>>
    /\ order' = <<>>
    /\ agg' = "none"
    /\ aggErr' = None

\* part_002:115-123 the loop test of _orch and the body up to its await, for the
\* frames fs (the top one holds curr, p), the heap hp and the trace tr: without a
\* node _orch returns; else curr is copied field by field, the copy gets its own
\* params and successors objects, setParams(p), and _run is called on it: for a
\* Flow that calls its prep and opens a frame, for a plain node see RunPrep.
Turn(fs, hp, tr) ==
    LET d == Len(fs)
        n == fs[d].curr
        addr == NewObject(n, d)
    IN  IF n = NoNode
        THEN /\ frames' = [fs EXCEPT ![d].pc = "post"]
             /\ heap' = hp
             /\ trace' = tr
             /\ ResetRun("off", 0)
        ELSE /\ heap' = [hp EXCEPT ![addr] = [params |-> fs[d].p, curRetry |-> hp[n].curRetry]]
             /\ IF n \in Flows
                THEN /\ frames' = Append([fs EXCEPT ![d].pc = "flow"], NewFrame(addr, n))
                     /\ trace' = CallFlowPrep(tr, n)
                     /\ ResetRun("off", 0)
                ELSE /\ frames' = [fs EXCEPT ![d].pc = "node"]
                     /\ trace' = tr
                     /\ ResetRun("prep", hp[n].curRetry)

\* part_002:43-47 and 130-131 run is called on the outermost Flow object itself:
\* _run calls prep and awaits it.
FlowRun ==
    /\ orchPc = "idle"
    /\ orchPc' = "running"
    /\ frames' = <<NewFrame("top", "top")>>
    /\ trace' = CallFlowPrep(<<>>, "top")
    /\ UNCHANGED <<nodeVars, flowVars, build, start, flowPost, heap, runRet, flowRet, orchErr>>

\* part_002:132 and 112-123 prep has returned: _orch begins at this.start with
\* p = { ...this.params } and takes its first turn.
OrchBegin ==
    /\ orchPc = "running"
    /\ Top.pc = "orch"
    /\ CanEnter(start[Top.of])
    /\ Turn([frames EXCEPT ![Depth].curr = start[Top.of],
                           ![Depth].p = Merge(heap[Top.self].params, NoParams)],
            heap, trace)
    /\ UNCHANGED <<cfgVars, flowVars, build, start, flowPost, runRet, orchPc, flowRet, orchErr>>

\* part_002:37 prep of the plain node clone (with RunPrep)
NodePrep ==
    /\ orchPc = "running"
    /\ trace' = Append(trace, Ev("prep", Running, Undefined))
    /\ UNCHANGED <<build, start, flowPost, heap, frames, runRet, orchPc, flowRet, orchErr>>

\* part_002:40 post of the plain node clone returns action (with RunPost)
NodePost(action) ==
    /\ orchPc = "running"
    /\ runRet' = action
    /\ trace' = Append(trace, Ev("post", Running, action))
    /\ UNCHANGED <<build, start, flowPost, heap, frames, orchPc, flowRet, orchErr>>

\* the call of post of the node that runs throws: it returns nothing
NodePostThrown ==
    /\ orchPc = "running"
    /\ trace' = Append(trace, Ev("post", Running, Undefined))
    /\ UNCHANGED <<build, start, flowPost, heap, frames, runRet, orchPc, flowRet, orchErr>>

\* part_002:123-124 `lastResult = await node._run(shared)` resumes with what the
\* clone's _run returned; getNextNode(curr, lastResult) on the canonical node
\* gives the node of the next turn.  The clone keeps the counter its run left.
OrchResume ==
    /\ orchPc = "running"
    /\ \/ Top.pc = "node" /\ runPc = "done"
       \/ Top.pc = "resumed"
    /\ LET next == GetNextNode(Top.curr, runRet)
           hp == IF Top.pc = "node"
                 THEN [heap EXCEPT ![RunningAddr].curRetry = curRetry]
                 ELSE heap
       IN  /\ CanEnter(next)
           /\ flowWarnings' = IF Warns(Top.curr, runRet) THEN flowWarnings + 1 ELSE flowWarnings
           /\ Turn([frames EXCEPT ![Depth].last = runRet, ![Depth].curr = next], hp, trace)
    /\ UNCHANGED <<cfgVars, graphVars, flowPc, curr, prev, lastResult>>
    /\ UNCHANGED <<build, start, flowPost, runRet, orchPc, flowRet, orchErr>>

\* part_002:133 _orch has returned: Flow._run returns what this.post(shared, pr,
\* result) returns, to the caller of run or to the _orch that awaits this Flow.
FlowPost ==
    /\ orchPc = "running"
    /\ Top.pc = "post"
    /\ LET ret == FlowPostReturn(Top.last)
       IN  /\ trace' = Append(trace, Ev("post", Top.of, ret))
           /\ IF Depth = 1
              THEN /\ frames' = <<>>
                   /\ orchPc' = "ended"
                   /\ flowRet' = ret
                   /\ UNCHANGED runRet
              ELSE /\ frames' = [SubSeq(frames, 1, Depth - 1) EXCEPT ![Depth - 1].pc = "resumed"]
                   /\ runRet' = ret
                   /\ UNCHANGED <<orchPc, flowRet>>
    /\ UNCHANGED <<nodeVars, flowVars, build, start, flowPost, heap, orchErr>>

\* part_002:123 and 132 the awaited _run of a node clone throws: nothing catches
\* it in _orch or Flow._run, so every open call rejects and so does run.
OrchThrow ==
    /\ orchPc = "running"
    /\ Top.pc = "node"
    /\ runPc = "failed"
    /\ orchPc' = "failed"
    /\ orchErr' = runErr
    /\ heap' = [heap EXCEPT ![RunningAddr].curRetry = curRetry]
    /\ frames' = <<>>
    /\ UNCHANGED <<nodeVars, flowVars, build, start, flowPost, trace, runRet, flowRet>>

\* ------------------------------------------------ the cycle program

\* test_flow_basic.test.ts:113-116 the nodes of 'should handle cycle until negative'
CycleNodes == {"n1", "check", "subtract3", "noOp"}
\* Largest argument of NumberNode and largest decrement of AddNode.
MaxStart == 10
MaxDec == 3

\* test_flow_basic.test.ts:120-125 n1 -> check; check -'positive'-> subtract3 -> check;
\* check -'negative'-> noOp
CycleWiring ==
    [n \in CycleNodes |-> [l \in Labels |->
        IF n = "n1" /\ l = DEFAULT_ACTION THEN "check"
        ELSE IF n = "check" /\ l = "positive" THEN "subtract3"
        ELSE IF n = "check" /\ l = "negative" THEN "noOp"
        ELSE IF n = "subtract3" /\ l = DEFAULT_ACTION THEN "check"
        ELSE NoNode]]

\* test_flow_basic.test.ts:14-16 and 24-26 prep of NumberNode and of AddNode; the
\* other nodes leave the store alone
PrepEffect(n, sh) ==
    IF n = "n1" THEN [defined |-> TRUE, current |-> numberArg]
    ELSE IF n = "subtract3" THEN [sh EXCEPT !.current = @ + addArg]
    ELSE sh

\* test_flow_basic.test.ts:41-43 post of CheckPositiveNode; every other post
\* returns nothing
PostAction(n, sh) ==
    IF n = "check"
    THEN IF sh.current >= 0 THEN "positive" ELSE "negative"
    ELSE Undefined

\* part_003:126-136 one turn of the loop of _orch over the cycle program: the clone
\* of curr runs prep, exec and post, and getNextNode picks the next node.
CycleStep ==
    /\ flowPc = "running"
    /\ LET sh == PrepEffect(curr, shared)
           action == PostAction(curr, sh)
       IN  /\ shared' = sh
           /\ applied' = IF curr = "subtract3" THEN applied + 1 ELSE applied
           /\ prev' = curr
           /\ lastResult' = action
           /\ curr' = GetNextNode(curr, action)
           /\ flowWarnings' = IF Warns(curr, action) THEN flowWarnings + 1 ELSE flowWarnings
           /\ flowPc' = IF GetNextNode(curr, action) = NoNode THEN "ended" ELSE "running"
    /\ UNCHANGED <<nodeVars, graphVars, orchVars, numberArg, addArg, twinVars, bfVars, injVars, parVars>>

\* ------------------------------------ traversals of a ParallelBatchFlow

\* Largest number of param sets prep hands to a ParallelBatchFlow.
MaxTraversals == 2
Traversals == 1..MaxTraversals
\* the node every traversal starts at: `new ParallelBatchFlow(A)`
TwinStart == "A"
\* the param sets prep returned
BatchParams == <<"bp1", "bp2", "bp3">>

\* the node object traversal t runs
TwinAddr(t) == NewObject(TwinStart, t)
\* this.curRetry of that object
TwinRetry(t) == heap[TwinAddr(t)].curRetry

\* part_002:116-121 the clone made by the _orch call of traversal t, written to the
\* heap hp: the fields of curr, and setParams({ ...this.params, ...bp })
WithClone(hp, t) ==
    [hp EXCEPT ![TwinAddr(t)] =
        [params |-> Merge(hp["top"].params, [NoParams EXCEPT !["run"] = BatchParams[t]]),
         curRetry |-> hp[TwinStart].curRetry]]
RECURSIVE WithClones(_, _)
WithClones(hp, t) == IF t = 0 THEN hp ELSE WithClone(WithClones(hp, t - 1), t)

\* part_002:153-157 ParallelBatchFlow._run after prep: map calls _orch once per
\* param set, and each call clones the start node and calls _run on its clone,
\* which calls prep, before the next call is made.
TwinLaunch ==
    /\ orchPc = "idle"
    /\ orchPc' = "running"
    /\ heap' = WithClones(heap, MaxTraversals)
    /\ twPc' = [t \in Traversals |-> "prep"]
    /\ UNCHANGED <<nodeVars, flowVars, build, start, flowPost, frames, trace, runRet, flowRet,
                   orchErr, cycleVars, parVars, bfVars, injVars, twAct, twSeen>>

\* part_002:38 and 63-66 prep of traversal t has returned: _exec resets the counter
\* of its node object and calls exec.
TwinPrep(t) ==
    /\ twPc[t] = "prep"
    /\ twPc' = [twPc EXCEPT ![t] = "exec"]
    /\ heap' = [heap EXCEPT ![TwinAddr(t)].curRetry = 0]
    /\ twAct' = [twAct EXCEPT ![t] = LoopHead(NewAct(prepRes), 0)]
    /\ UNCHANGED <<nodeVars, flowVars, build, start, flowPost, frames, trace, runRet, orchPc,
                   flowRet, orchErr, cycleVars, parVars, bfVars, injVars, twSeen>>

\* part_002:66 exec of traversal t fulfils
TwinExecResolve(t) ==
    /\ twPc[t] = "exec"
    /\ twAct[t].pc = "exec"
    /\ twAct' = [twAct EXCEPT ![t].pc = "returned",
                              ![t].ret = ExecValue(twAct[t].arg, twAct[t].attempts)]
    /\ UNCHANGED <<nodeVars, flowVars, orchVars, cycleVars, parVars, bfVars, injVars, twPc, twSeen>>

\* part_002:67-74 exec of traversal t rejects: the catch block on its node object
TwinExecReject(t) ==
    /\ twPc[t] = "exec"
    /\ twAct[t].pc = "exec"
    /\ LET a == twAct[t]
           e == ExecError(a.arg, a.attempts)
       IN  IF IsLastAttempt(TwinRetry(t))
           THEN /\ twAct' = [twAct EXCEPT ![t].pc = "fallback", ![t].fbCalls = @ + 1,
                                          ![t].fbArg = a.arg, ![t].fbExc = e]
                /\ UNCHANGED heap
           ELSE IF Backoff
           THEN /\ twAct' = [twAct EXCEPT ![t].pc = "wait", ![t].waits = @ + 1]
                /\ UNCHANGED heap
           ELSE /\ heap' = [heap EXCEPT ![TwinAddr(t)].curRetry = NextRetry(@)]
                /\ twAct' = [twAct EXCEPT ![t] = LoopHead(a, NextRetry(TwinRetry(t)))]
    /\ UNCHANGED <<nodeVars, flowVars, build, start, flowPost, frames, trace, runRet, orchPc,
                   flowRet, orchErr, cycleVars, parVars, bfVars, injVars, twPc, twSeen>>

\* part_002:72 the backoff timer of traversal t fires
TwinTimerFire(t) ==
    /\ twPc[t] = "exec"
    /\ twAct[t].pc = "wait"
    /\ heap' = [heap EXCEPT ![TwinAddr(t)].curRetry = NextRetry(@)]
    /\ twAct' = [twAct EXCEPT ![t] = LoopHead(twAct[t], NextRetry(TwinRetry(t)))]
    /\ UNCHANGED <<nodeVars, flowVars, build, start, flowPost, frames, trace, runRet, orchPc,
                   flowRet, orchErr, cycleVars, parVars, bfVars, injVars, twPc, twSeen>>

\* part_002:59-61 and 69 execFallback of traversal t settles
TwinFallbackSettle(t) ==
    /\ twPc[t] = "exec"
    /\ twAct[t].pc = "fallback"
    /\ IF fallback = "default"
       THEN twAct' = [twAct EXCEPT ![t].pc = "thrown", ![t].err = twAct[t].fbExc]
       ELSE twAct' = [twAct EXCEPT ![t].pc = "returned",
                                   ![t].ret = FallbackValue(twAct[t].fbArg, twAct[t].fbExc)]
    /\ UNCHANGED <<nodeVars, flowVars, orchVars, cycleVars, parVars, bfVars, injVars, twPc, twSeen>>

\* part_002:39-40 _exec of traversal t has returned: post is called on its node
\* object and sees this.curRetry
TwinPost(t) ==
    /\ twPc[t] = "exec"
    /\ twAct[t].pc = "returned"
    /\ twPc' = [twPc EXCEPT ![t] = "done"]
    /\ twSeen' = [twSeen EXCEPT ![t] = [exec |-> twAct[t].ret, curRetry |-> TwinRetry(t)]]
    /\ UNCHANGED <<nodeVars, flowVars, orchVars, cycleVars, parVars, bfVars, injVars, twAct>>

\* part_002:39 _exec of traversal t throws: its _orch call rejects
TwinFail(t) ==
    /\ twPc[t] = "exec"
    /\ twAct[t].pc = "thrown"
    /\ twPc' = [twPc EXCEPT ![t] = "failed"]
    /\ UNCHANGED <<nodeVars, flowVars, orchVars, cycleVars, parVars, bfVars, injVars, twAct, twSeen>>

\* ------------------------------------------------------------ batch flows

\* Largest number of param sets the prep of the batch flow returns.
MaxSets == 2

\* the batch flow that is the start node of the batch flow in the nested program
InnerFlowObj == "f1"
\* part_002:144 `let result = null`
NoResult == "null"
\* what the post of a plain node of the batch flow returns
BatchActions == {DEFAULT_ACTION, "negative"}

\* the _orch call for one param set: not begun
NewTrav ==
    [pc |-> "wait", p |-> NoParams, j |-> 0, q |-> NoParams, last |-> Undefined,
     res |-> Undefined]

SetIdx == DOMAIN bfSets

\* (variant: the params of the flow win over the param set)
BaseWins(own, bp) == Merge(Merge(own, bp), own)
\* part_002:146 and 113 `_orch(shared, { ...this.params, ...bp })`, and in _orch
\* `p = { ...this.params, ...(params || {}) }`
BatchCall(own, bp) == Merge(own, Merge(own, bp))

\* part_002:112 `curr = this.start`
BatchStart == IF bfNested THEN InnerFlowObj ELSE "A"

\* part_002:111-122 _orch is entered for param set t: up to the _run of the clone
\* of the start node
Begin(tr, t) ==
    [tr EXCEPT ![t].pc = BatchStart, ![t].p = BatchCall(bfBase, bfSets[t])]

\* (variant: the inner batch flow keeps the params it was constructed with)
InnerKeepsOwn(t) == OwnParams(InnerFlowObj)
\* part_002:122 `node.setParams(p)` on the clone of the inner batch flow: its
\* this.params are the p of the outer traversal
InnerParams(t) == bfTrav[t].p

\* the params of the clones _orch makes in the innermost traversal of param set t
NodeParams(t) == IF bfNested THEN bfTrav[t].q ELSE bfTrav[t].p

\* part_002:142-144 and 153-157 _run of the batch flow until its first await: the
\* sequential flow has called prep; the parallel flow has called _orch for every
\* param set, in input order
BatchRun ==
    /\ bfPc = "idle"
    /\ bfPc' = "loop"
    /\ bfResult' = NoResult
    /\ bfTrav' = IF bfMode = "par"
                 THEN [t \in SetIdx |-> Begin(bfTrav, t)[t]]
                 ELSE bfTrav
    /\ UNCHANGED <<nodeVars, flowVars, orchVars, cycleVars, parVars, twinVars, injVars, bfCfgVars, bfSeen,
                   bfShared, bfOut>>

\* (variant: the loop does not await the _orch call of the previous param set)
SeqStartEager(t) ==
    /\ bfMode = "seq"
    /\ bfPc = "loop"
    /\ bfTrav[t].pc = "wait"
    /\ \A u \in 1..(t - 1) : bfTrav[u].pc # "wait"
    /\ bfTrav' = Begin(bfTrav, t)
    /\ UNCHANGED <<nodeVars, flowVars, orchVars, cycleVars, parVars, twinVars, injVars, bfCfgVars, bfPc, bfSeen,
                   bfShared, bfResult, bfOut>>

\* part_002:145-146 the next turn of `for (const bp of pr)`: _orch is called for
\* param set t once the _orch calls of the sets before it have returned
SeqStart(t) ==
    /\ bfMode = "seq"
    /\ bfPc = "loop"
    /\ bfTrav[t].pc = "wait"
    /\ \A u \in 1..(t - 1) : bfTrav[u].pc = "done"
    /\ bfTrav' = Begin(bfTrav, t)
    /\ UNCHANGED <<nodeVars, flowVars, orchVars, cycleVars, parVars, twinVars, injVars, bfCfgVars, bfPc, bfSeen,
                   bfShared, bfResult, bfOut>>

\* part_002:116-127 the clone of a plain node has run with params p and its post,
\* which writes to the shared store, returned action: _orch goes on to the
\* successor, or returns action when there is none. In the nested program the
\* _orch that returns is the one of the inner batch flow (part_002:146).
NodeReturn(t, action) ==
    LET n == bfTrav[t].pc
        next == GetNextNode(n, action)
    IN  /\ n \in PlainNodes
        /\ bfSeen' = Append(bfSeen, [t |-> t, j |-> bfTrav[t].j, node |-> n, p |-> NodeParams(t)])
        /\ bfShared' = Append(bfShared, <<t, bfTrav[t].j, n>>)
        /\ bfTrav' = [bfTrav EXCEPT
                        ![t].last = action,
                        ![t].pc = IF next # NoNode THEN next
                                  ELSE IF bfNested THEN InnerFlowObj ELSE "done",
                        ![t].res = IF next = NoNode /\ ~bfNested THEN action ELSE @]
        /\ bfResult' = IF next = NoNode /\ ~bfNested /\ bfMode = "seq" THEN action ELSE bfResult
        /\ UNCHANGED <<nodeVars, flowVars, orchVars, cycleVars, parVars, twinVars, injVars, bfCfgVars, bfPc, bfOut>>

\* (variant: the error of a node ends its traversal only)
NodeThrowSkipped(t) ==
    /\ bfTrav[t].pc \in PlainNodes
    /\ bfTrav' = [bfTrav EXCEPT ![t].pc = "failed"]
    /\ UNCHANGED <<nodeVars, flowVars, orchVars, cycleVars, parVars, twinVars, injVars, bfCfgVars, bfPc, bfSeen,
                   bfShared, bfResult, bfOut>>

\* part_002:123 `await node._run(shared)` rejects (exec failed on every attempt and
\* execFallback rethrew): nothing catches, so _orch, the _run of an enclosing
\* inner flow and the _run of the batch flow reject with that error; Promise.all
\* (part_002:155) rejects with the first error and leaves the other _orch calls
\* running.
NodeThrow(t) ==
    /\ bfTrav[t].pc \in PlainNodes
    /\ bfTrav' = [bfTrav EXCEPT ![t].pc = "failed"]
    /\ bfPc' = IF bfPc = "loop" THEN "failed" ELSE bfPc
    /\ bfOut' = IF bfPc = "loop"
                THEN [bfOut EXCEPT !.err = <<t, bfTrav[t].j, bfTrav[t].pc>>]
                ELSE bfOut
    /\ UNCHANGED <<nodeVars, flowVars, orchVars, cycleVars, parVars, twinVars, injVars, bfCfgVars, bfSeen,
                   bfShared, bfResult>>

\* part_002:142-148 _run of the clone of the inner batch flow, within the traversal
\* of param set t: the next turn of its loop calls _orch with its this.params
\* and the next inner set; after the last turn its post returns nothing, and the
\* outer _orch (part_002:123-127), finding no successor, returns that.
InnerLoop(t) ==
    /\ bfTrav[t].pc = InnerFlowObj
    /\ bfTrav' = IF bfTrav[t].j < Len(bfInner)
                 THEN [bfTrav EXCEPT
                         ![t].j = @ + 1,
                         ![t].q = BatchCall(InnerParams(t), bfInner[bfTrav[t].j + 1]),
                         ![t].pc = "A"]
                 ELSE [bfTrav EXCEPT ![t].pc = "done", ![t].res = Undefined]
    /\ bfResult' = IF bfTrav[t].j < Len(bfInner) \/ bfMode # "seq" THEN bfResult ELSE Undefined
    /\ UNCHANGED <<nodeVars, flowVars, orchVars, cycleVars, parVars, twinVars, injVars, bfCfgVars, bfPc, bfSeen,
                   bfShared, bfOut>>

\* (variant: the result of the _orch call that settled first)
FirstResult(rs) == IF Len(rs) > 0 THEN rs[1] ELSE NoResult
\* part_002:158 `results.length > 0 ? results[results.length - 1] : null`
LastResult(rs) == IF Len(rs) > 0 THEN rs[Len(rs)] ELSE NoResult

\* part_002:155 what Promise.all resolves with: the results in input order
OrchResults == [t \in SetIdx |-> bfTrav[t].res]

\* part_002:148 and 159 every _orch call has returned: post is called with the
\* param sets and `result` (sequential) or `lastResult` (parallel)
BatchPost ==
    /\ bfPc = "loop"
    /\ \A t \in SetIdx : bfTrav[t].pc = "done"
    /\ bfPc' = "ended"
    /\ bfOut' = [bfOut EXCEPT !.post = TRUE,
                              !.execRes = IF bfMode = "seq" THEN bfResult
                                          ELSE LastResult(OrchResults)]
    /\ UNCHANGED <<nodeVars, flowVars, orchVars, cycleVars, parVars, twinVars, injVars, bfCfgVars, bfTrav, bfSeen,
                   bfShared, bfResult>>

\* ------------------------------------------- flow.setParams, then flow.run

\* part_002:113 `p = { ...this.params, ...(params || {}) }`, params being undefined
\* in the call _orch(shared) of Flow._run (part_002:132)
StartFlowParams == Merge(injFlow, NoParams)
\* src/src/index.ts:58 `let p = { ...(params || {}) }`, params being undefined
\* in the call flow.run(shared)
SuccessorFlowParams == Merge(NoParams, NoParams)

\* flow.run(shared) up to the loop: p is computed and curr is the first node
InjectRun ==
    /\ injPc = "idle"
    /\ injPc' = "running"
    /\ injCurr' = "A"
    /\ injP' = IF injImpl = "index" THEN SuccessorFlowParams ELSE StartFlowParams
    /\ UNCHANGED <<nodeVars, flowVars, orchVars, cycleVars, parVars, twinVars, bfVars, injImpl, injFlow,
                   injOwn, injSeen>>

\* part_002:119 and src/src/index.ts:38 the params of the clone of n: a copy of
\* the params of n
ClonedParams(n) == IF injOwn THEN OwnParams(n) ELSE NoParams
\* part_002:12-15 and src/src/index.ts:7-9 `this.params = params`
SetParams(old, params) == params

\* what a hook can do to this.params: nothing, or `this.params[key] = ...`
HookWrites == {"none"} \cup Keys

\* part_002:116-124 and src/src/index.ts:61-65 one turn of the loop: the clone of
\* curr gets a copy of the params of curr (the object "copy"), then
\* setParams(p) makes its this.params the object p of the loop itself; the
\* clone is run, a hook of it writing key wkey of this.params; its post
\* returns action and getNextNode picks the next node
InjectStep(action, wkey) ==
    LET ref == SetParams("copy", "p")
        before == IF ref = "p" THEN injP ELSE ClonedParams(injCurr)
        after == IF wkey = "none" THEN before ELSE [before EXCEPT ![wkey] = "hook"]
    IN  /\ injPc = "running"
        /\ injSeen' = Append(injSeen, [node |-> injCurr, p |-> before, wrote |-> wkey])
        /\ injP' = IF ref = "p" THEN after ELSE injP
        /\ injCurr' = GetNextNode(injCurr, action)
        /\ injPc' = IF GetNextNode(injCurr, action) = NoNode THEN "ended" ELSE "running"
        /\ UNCHANGED <<nodeVars, flowVars, orchVars, cycleVars, parVars, twinVars, bfVars, injImpl,
                       injFlow, injOwn>>

\* ------------------------------------- the successor-start Flow of index.ts

\* src/src/index.ts:28-33 `on(action, node)`: successors[action] = node, whatever
\* was there
On(succ, src, action, tgt) == [succ EXCEPT ![src][action] = tgt]

\* The programs, as their calls of next / on in order, <<source, action, target>>:
\* "entry" wires only the chain of the Flow f1 (f1.next(A), A.next(C)); "sample"
\* then calls f1.next(B) as sample.ts does with editAgent.next(mainAgent);
\* "labelled" calls f1.on('positive', B) instead. top.next(f1) installs f1 in
\* the parent Flow.
IndexBuilds == {"entry", "sample", "labelled"}
IndexCalls(b) ==
    <<<<"top", DEFAULT_ACTION, "f1">>, <<"f1", DEFAULT_ACTION, "A">>,
      <<"A", DEFAULT_ACTION, "C">>>> \o
    (CASE b = "sample"   -> <<<<"f1", DEFAULT_ACTION, "B">>>>
       [] b = "labelled" -> <<<<"f1", "positive", "B">>>>
       [] OTHER          -> <<>>)

RECURSIVE Wired(_, _)
\* the successors after the first k calls
Wired(calls, k) ==
    IF k = 0 THEN [n \in Objs |-> [l \in Labels |-> NoNode]]
    ELSE On(Wired(calls, k - 1), calls[k][1], calls[k][2], calls[k][3])

IndexWiring(b) == Wired(IndexCalls(b), Len(IndexCalls(b)))

\* src/src/index.ts:52 `this.getNextNode()`: the entry of a Flow is its default
\* successor
Entry(f) == GetNextNode(f, Undefined)

\* a call of Flow.run on f: curr and lastResult of its loop
IndexFrame(f, lastFlowResult) ==
    [NewFrame(f, f) EXCEPT !.curr = Entry(f), !.last = lastFlowResult]

\* src/src/index.ts:51-59 flow.run(shared) on the parent Flow, up to the loop;
\* it throws when the Flow has no entry
IndexRun ==
    /\ orchPc = "idle"
    /\ IF Entry("top") = NoNode
       THEN /\ orchPc' = "failed"
            /\ frames' = frames
       ELSE /\ orchPc' = "running"
            /\ frames' = <<IndexFrame("top", Undefined)>>
    /\ UNCHANGED <<nodeVars, flowVars, build, start, flowPost, heap, trace, runRet, flowRet,
                   orchErr, sideVars>>

\* src/src/index.ts:61-65 a turn of the loop on a plain node: its clone is run,
\* its _post returns action, and the successor of curr under action is next
IndexStep(action) ==
    /\ orchPc = "running"
    /\ Top.curr \in PlainNodes
    /\ trace' = Append(trace, Ev("run", Top.curr, action))
    /\ frames' = [frames EXCEPT ![Depth].last = action,
                                ![Depth].curr = GetNextNode(Top.curr, action)]
    /\ UNCHANGED <<nodeVars, flowVars, build, start, flowPost, heap, runRet, orchPc, flowRet,
                   orchErr, sideVars>>

\* src/src/index.ts:61-64 and 51-59 a turn of the loop on a Flow: run is called
\* on its clone with lastResult, and begins at the entry of that Flow or throws
IndexEnter ==
    /\ orchPc = "running"
    /\ Top.curr \in Flows
    /\ trace' = Append(trace, Ev("enter", Top.curr, Undefined))
    /\ IF Entry(Top.curr) = NoNode
       THEN /\ orchPc' = "failed"
            /\ frames' = frames
       ELSE /\ orchPc' = orchPc
            /\ frames' = Append(frames, IndexFrame(Top.curr, Top.last))
    /\ UNCHANGED <<nodeVars, flowVars, build, start, flowPost, heap, runRet, flowRet, orchErr,
                   sideVars>>

\* src/src/index.ts:61 and 65-68 the loop of the innermost run has no curr: run
\* returns lastResult, to the caller of the outermost run or to the loop of the
\* enclosing run, which takes the successor of its curr under that result
IndexReturn ==
    /\ orchPc = "running"
    /\ Top.curr = NoNode
    /\ IF Depth = 1
       THEN /\ orchPc' = "ended"
            /\ flowRet' = Top.last
            /\ frames' = <<>>
            /\ trace' = trace
       ELSE /\ orchPc' = orchPc
            /\ flowRet' = flowRet
            /\ trace' = Append(trace, Ev("leave", frames[Depth - 1].curr, Top.last))
            /\ frames' = [SubSeq(frames, 1, Depth - 1) EXCEPT
                            ![Depth - 1].last = Top.last,
                            ![Depth - 1].curr = GetNextNode(frames[Depth - 1].curr, Top.last)]
    /\ UNCHANGED <<nodeVars, flowVars, build, start, flowPost, heap, runRet, orchErr, sideVars>>

\* ------------------------------------------------ BaseNode.clone of index.ts

\* the node that is cloned, and the object clone() returns
CloneOf == "A"
TheClone == Clones[1]

\* src/src/index.ts:11, 21, 27 getNextNode, next and on are arrow-function fields:
\* each object gets its own copies in the constructor, with `this` bound to
\* that object; src/src/index.ts:36-37 Object.assign copies the fields of the
\* original into the clone, so the functions of the clone still have the
\* original as `this`. setParams (index.ts:7) is a method: its `this` is the
\* object it is called on.
ArrowThis(a) == IF a = TheClone THEN CloneOf ELSE a

\* src/src/index.ts:35-41 clone(): a new object with a copy of params and a copy
\* of successors
CloneNode ==
    /\ orchPc = "idle"
    /\ orchPc' = "cloned"
    /\ heap' = [heap EXCEPT ![TheClone].params = heap[CloneOf].params]
    /\ successors' = [successors EXCEPT ![TheClone] = successors[CloneOf]]
    /\ UNCHANGED <<nodeVars, wired, overwrites, flowPc, curr, prev, lastResult, flowWarnings,
                   build, start, flowPost, frames, trace, runRet, flowRet, orchErr, sideVars>>

\* src/src/index.ts:7-9 clone.setParams(params)
CloneSetParams(params) ==
    /\ orchPc = "cloned"
    /\ heap' = [heap EXCEPT ![TheClone].params = params]
    /\ UNCHANGED <<nodeVars, flowVars, build, start, flowPost, frames, trace, runRet, orchPc,
                   flowRet, orchErr, sideVars>>

\* src/src/index.ts:27-33 clone.on(action, tgt): `this.successors[action] = node`
CloneOn(action, tgt) ==
    /\ orchPc = "cloned"
    /\ successors' = On(successors, ArrowThis(TheClone), action, tgt)
    /\ UNCHANGED <<nodeVars, wired, overwrites, flowPc, curr, prev, lastResult, flowWarnings,
                   orchVars, sideVars>>

\* src/src/index.ts:21-24 clone.next(tgt): `this.on('default', node)`
CloneNext(tgt) ==
    /\ orchPc = "cloned"
    /\ successors' = On(successors, ArrowThis(ArrowThis(TheClone)), DEFAULT_ACTION, tgt)
    /\ UNCHANGED <<nodeVars, wired, overwrites, flowPc, curr, prev, lastResult, flowWarnings,
                   orchVars, sideVars>>

\* src/src/index.ts:11-18 a.getNextNode(action)
GetNextNodeOf(a, action) == GetNextNode(ArrowThis(a), action)

\* ------------------------------------------------- AsyncFlow of part_003

\* The programs run with runAsync on the AsyncFlow top: "wrapped" has the
\* AsyncFlow f1 (over A -> B) as start node, followed by C; "followed" has A as
\* start node and f1 (over B -> C) as its successor; "mixed" is A -> B -> C
\* without inner flow. A and C are AsyncNodes, B is a regular Node.
AsyncBuilds == {"wrapped", "followed", "mixed"}
AsyncEdges(b) ==
    CASE b = "wrapped"  -> {<<"f1", DEFAULT_ACTION, "C">>, <<"A", DEFAULT_ACTION, "B">>}
      [] b = "followed" -> {<<"A", DEFAULT_ACTION, "f1">>, <<"B", DEFAULT_ACTION, "C">>}
      [] OTHER          -> {<<"A", DEFAULT_ACTION, "B">>, <<"B", DEFAULT_ACTION, "C">>,
                            <<"A", "negative", "C">>}
AsyncStartOf(b) ==
    CASE b = "wrapped"  -> ("top" :> "f1" @@ "f1" :> "A" @@ "f2" :> NoNode)
      [] b = "followed" -> ("top" :> "A" @@ "f1" :> "B" @@ "f2" :> NoNode)
      [] OTHER          -> ("top" :> "A" @@ "f1" :> NoNode @@ "f2" :> NoNode)
AsyncWiring(b) ==
    [n \in Objs |-> [l \in Labels |->
        IF \E e \in AsyncEdges(b) : e[1] = n /\ e[2] = l
        THEN (CHOOSE e \in AsyncEdges(b) : e[1] = n /\ e[2] = l)[3]
        ELSE NoNode]]

\* the class of each object
ClassOf(n) ==
    IF n \in Flows THEN "AsyncFlow" ELSE IF n = "B" THEN "Node" ELSE "AsyncNode"

\* part_003:163, 220, 243, 265 the classes that extend AsyncNode; AsyncFlow
\* extends Flow, which extends BaseNode
InstanceOfAsyncNode(class) ==
    class \in {"AsyncNode", "AsyncBatchNode", "AsyncParallelBatchNode"}

\* part_003:312 `node instanceof AsyncNode ? await node._runAsync(shared) : node._run(shared)`
Dispatch(n) == IF InstanceOfAsyncNode(ClassOf(n)) THEN "_runAsync" ELSE "_run"

\* part_003:176, 275 _run of an AsyncNode and of an AsyncFlow throws
RunThrows(n) == ClassOf(n) \in {"AsyncNode", "AsyncFlow"}
UseRunAsync == Val("Use runAsync.", 0, 0)

\* a call of AsyncFlow._runAsync on a clone of f: curr of its _orchAsync
AsyncFrame(f) == [NewFrame(f, f) EXCEPT !.curr = start[f]]

\* part_003:291-301, 319-321 runAsync on the outer flow: prepAsync, then
\* _orchAsync begins at this.start
AsyncRun ==
    /\ orchPc = "idle"
    /\ orchPc' = "running"
    /\ frames' = <<AsyncFrame("top")>>
    /\ UNCHANGED <<nodeVars, flowVars, build, start, flowPost, heap, trace, runRet, flowRet,
                   orchErr, sideVars>>

\* part_003:304-313 a turn of the loop on a plain node: _runAsync of an
\* AsyncNode or _run of a Node runs the clone, whose post returns action
AsyncStep(action) ==
    /\ orchPc = "running"
    /\ Top.curr \in PlainNodes
    /\ ~(Dispatch(Top.curr) = "_run" /\ RunThrows(Top.curr))
    /\ trace' = Append(trace, Ev("run", Top.curr, action))
    /\ frames' = [frames EXCEPT ![Depth].last = action,
                                ![Depth].curr = GetNextNode(Top.curr, action)]
    /\ UNCHANGED <<nodeVars, flowVars, build, start, flowPost, heap, runRet, orchPc, flowRet,
                   orchErr, sideVars>>

\* part_003:304-312 a turn of the loop on a flow: the method Dispatch names is
\* called on its clone. _runAsync (part_003:319-321) calls prepAsync and begins
\* _orchAsync at the start of that flow; _run (part_003:275) throws, and
\* _orchAsync and the calls around it reject with that error.
AsyncEnter ==
    /\ orchPc = "running"
    /\ Top.curr \in Flows
    /\ IF Dispatch(Top.curr) = "_run" /\ RunThrows(Top.curr)
       THEN /\ orchPc' = "failed"
            /\ orchErr' = UseRunAsync
            /\ trace' = Append(trace, Ev("throw", Top.curr, Undefined))
            /\ frames' = frames
       ELSE /\ orchPc' = orchPc
            /\ orchErr' = orchErr
            /\ trace' = Append(trace, Ev("enter", Top.curr, Undefined))
            /\ frames' = Append(frames, AsyncFrame(Top.curr))
    /\ UNCHANGED <<nodeVars, flowVars, build, start, flowPost, heap, runRet, flowRet, sideVars>>

\* part_003:304, 316 and 322 the loop of the innermost _orchAsync has no curr:
\* _runAsync returns what postAsync returned (nothing), to the caller of
\* runAsync or to the loop of the enclosing flow
AsyncReturn ==
    /\ orchPc = "running"
    /\ Top.curr = NoNode
    /\ IF Depth = 1
       THEN /\ orchPc' = "ended"
            /\ flowRet' = Undefined
            /\ frames' = <<>>
            /\ trace' = trace
       ELSE /\ orchPc' = orchPc
            /\ flowRet' = flowRet
            /\ trace' = Append(trace, Ev("leave", frames[Depth - 1].curr, Undefined))
            /\ frames' = [SubSeq(frames, 1, Depth - 1) EXCEPT
                            ![Depth - 1].last = Undefined,
                            ![Depth - 1].curr = GetNextNode(frames[Depth - 1].curr, Undefined)]
    /\ UNCHANGED <<nodeVars, flowVars, build, start, flowPost, heap, runRet, orchErr, sideVars>>

\* ------------------------------------------------- BatchNode of part_017

\* part_017:111-115 and src/src/index.ts:171-175 `results.push(await this._exec(item))`:
\* BatchNode.exec overrides the retry loop of Node.exec and calls the user's
\* _exec once per item; when that call rejects nothing catches the error, exec
\* rejects and execFallback is not called.
ItemReject(i) ==
    /\ InFlight(i)
    /\ act[i].pc = "exec"
    /\ act' = [act EXCEPT ![i].pc = "thrown",
                          ![i].err = ExecError(act[i].arg, act[i].attempts)]
    /\ UNCHANGED <<cfgVars, curRetry, batchVars, runVars, flowVars>>

\* ------------------------- AsyncParallelBatchFlow: processor, then aggregator

\* The program of test_batch_flow.test.ts:205-299: sharedStorage['batches'] holds
\* lists of numbers, the prepAsync of the flow returns one param set {batch_id: i}
\* per batch, and every traversal runs the processor and then the aggregator on
\* the one shared store.
NumberLists == {<<1>>, <<2, 3>>}
FanNodes == {"processor", "aggregator"}

\* test_batch_flow.test.ts:279 `processor.minus('processed').rshift(aggregator)`
\* and part_003 getNextNode: the successor registered under the action, or null
FanNextNode(n, action) ==
    IF n = "processor" /\ action = "processed" THEN "aggregator" ELSE NoNode

\* test_batch_flow.test.ts:214-217 execAsync of the processor, over the items
RECURSIVE Doubled(_)
Doubled(list) ==
    IF list = <<>> THEN <<>> ELSE <<2 * Head(list)>> \o Doubled(Tail(list))

\* test_batch_flow.test.ts:252 `prepResult.reduce((sum, num) => sum + num, 0)`
RECURSIVE Reduce(_)
Reduce(list) == IF list = <<>> THEN 0 ELSE Head(list) + Reduce(Tail(list))

\* test_batch_flow.test.ts:230-248 prepAsync of the aggregator: the numbers of
\* every entry of processed_numbers, in the order of Object.keys
RECURSIVE AllResults(_, _)
AllResults(processed, keys) ==
    IF keys = {} THEN <<>>
    ELSE LET k == CHOOSE x \in keys : \A y \in keys : x <= y
         IN  processed[k] \o AllResults(processed, keys \ {k})

\* part_003:299-312 the _orchAsync call for batch b up to its first timer: the
\* clone of the processor is given {batch_id: b} and its prepAsync reads the batch;
\* pending counts the timers of execAsync that have not fired
NewOrch(b) ==
    [curr |-> "processor", pc |-> "exec", pending |-> Len(fanBatches[b]),
     prepRes |-> fanBatches[b], execRes |-> <<>>, last |-> Undefined]

\* part_003:349-353 _runAsync of AsyncParallelBatchFlow: prepAsync, then one
\* _orchAsync call per param set, all started before any of them is awaited
FanRun ==
    /\ fanPc = "idle"
    /\ fanPc' = "running"
    /\ fanTrav' = [b \in DOMAIN fanBatches |-> NewOrch(b)]
    /\ UNCHANGED <<fanBatches, sharedStorage>>

\* test_batch_flow.test.ts:215 a timer of the processor of batch b fires; when it
\* was the last one the Promise.all of its _exec resolves with the doubled items
ItemTimer(b) ==
    /\ fanPc = "running"
    /\ fanTrav[b].curr = "processor"
    /\ fanTrav[b].pc = "exec"
    /\ fanTrav' = [fanTrav EXCEPT
                     ![b].pending = @ - 1,
                     ![b].pc = IF fanTrav[b].pending = 1 THEN "post" ELSE "exec",
                     ![b].execRes = IF fanTrav[b].pending = 1 THEN Doubled(fanTrav[b].prepRes)
                                    ELSE <<>>]
    /\ UNCHANGED <<fanBatches, fanPc, sharedStorage>>

\* test_batch_flow.test.ts:219-226 postAsync of the processor stores the result
\* under its batch_id and returns 'processed'; part_003:313 picks the next node
ProcessorPost(b) ==
    LET old == sharedStorage.processed_numbers
    IN  /\ fanPc = "running"
        /\ fanTrav[b].curr = "processor"
        /\ fanTrav[b].pc = "post"
        /\ sharedStorage' = [sharedStorage EXCEPT !.processed_numbers =
                               [k \in DOMAIN old \cup {b} |->
                                  IF k = b THEN fanTrav[b].execRes ELSE old[k]]]
        /\ fanTrav' = [fanTrav EXCEPT
                         ![b].last = "processed",
                         ![b].curr = FanNextNode("processor", "processed"),
                         ![b].pc = IF FanNextNode("processor", "processed") = NoNode
                                   THEN "done" ELSE "prep"]
        /\ UNCHANGED <<fanBatches, fanPc>>

\* test_batch_flow.test.ts:230-248 prepAsync of the aggregator of traversal b
\* reads what processed_numbers holds at that moment
AggregatorPrep(b) ==
    /\ fanPc = "running"
    /\ fanTrav[b].curr = "aggregator"
    /\ fanTrav[b].pc = "prep"
    /\ fanTrav' = [fanTrav EXCEPT
                     ![b].prepRes = AllResults(sharedStorage.processed_numbers,
                                               DOMAIN sharedStorage.processed_numbers),
                     ![b].execRes = <<>>,
                     ![b].pc = "exec"]
    /\ UNCHANGED <<fanBatches, fanPc, sharedStorage>>

\* test_batch_flow.test.ts:250-253 the timer of execAsync of the aggregator fires
\* (execRes is kept as a list: here the list of the one sum)
AggregatorTimer(b) ==
    /\ fanPc = "running"
    /\ fanTrav[b].curr = "aggregator"
    /\ fanTrav[b].pc = "exec"
    /\ fanTrav' = [fanTrav EXCEPT ![b].execRes = <<Reduce(fanTrav[b].prepRes)>>,
                                  ![b].pc = "post"]
    /\ UNCHANGED <<fanBatches, fanPc, sharedStorage>>

\* test_batch_flow.test.ts:255-258 postAsync of the aggregator writes total and
\* returns 'aggregated', which has no successor: the traversal ends (part_003:313-316)
AggregatorPost(b) ==
    /\ fanPc = "running"
    /\ fanTrav[b].curr = "aggregator"
    /\ fanTrav[b].pc = "post"
    /\ sharedStorage' = [sharedStorage EXCEPT !.total = fanTrav[b].execRes[1]]
    /\ fanTrav' = [fanTrav EXCEPT
                     ![b].last = "aggregated",
                     ![b].curr = FanNextNode("aggregator", "aggregated"),
                     ![b].pc = IF FanNextNode("aggregator", "aggregated") = NoNode
                               THEN "done" ELSE "prep"]
    /\ UNCHANGED <<fanBatches, fanPc>>

\* part_003:351-357 every _orchAsync call has returned: Promise.all resolves and
\* postAsync of the flow is called
FanPost ==
    /\ fanPc = "running"
    /\ \A b \in DOMAIN fanTrav : fanTrav[b].pc = "done"
    /\ fanPc' = "ended"
    /\ UNCHANGED <<fanBatches, fanTrav, sharedStorage>>

\* ---------------------------------------------------------------- Semaphore

\* The tasks that call ThrottledParallelNode.exec: one per item, each calling
\* acquire once per attempt of its item.
SemTasks == 1..(MaxItems + 1)

\* test_flow_basic.test.ts:176 the task has passed `await this.semaphore.acquire()`
\* (its promise is resolved) and has not yet called release
Acquired(t) == semTask[t].pc \in {"woken", "holding"}

\* test_flow_basic.test.ts:148-154 acquire: with a permit left it is taken and the
\* promise is resolved; without one the resolver of the promise is queued
Acquire(t) ==
    /\ semTask[t].pc = "idle"
    /\ semTask[t].acquires < MaxRetries
    /\ IF permits > 0
       THEN /\ permits' = permits - 1
            /\ semTask' = [semTask EXCEPT ![t].pc = "holding", ![t].acquires = @ + 1]
            /\ queue' = queue
       ELSE /\ permits' = permits
            /\ semTask' = [semTask EXCEPT ![t].pc = "waiting", ![t].acquires = @ + 1]
            /\ queue' = Append(queue, t)
    /\ UNCHANGED concurrency

\* test_flow_basic.test.ts:156-160 release (called in the finally of exec, 180-182):
\* permits is incremented, and the first queued resolver, if any, is called
Release(t) ==
    /\ semTask[t].pc = "holding"
    /\ permits' = permits + 1
    /\ IF queue # <<>>
       THEN /\ semTask' = [semTask EXCEPT ![t].pc = "idle", ![Head(queue)].pc = "woken"]
            /\ queue' = Tail(queue)
       ELSE /\ semTask' = [semTask EXCEPT ![t].pc = "idle"]
            /\ queue' = queue
    /\ UNCHANGED concurrency

\* test_flow_basic.test.ts:176-178 the await of a task whose resolver was called
\* continues: the task enters the try block
Resume(t) ==
    /\ semTask[t].pc = "woken"
    /\ semTask' = [semTask EXCEPT ![t].pc = "holding"]
    /\ UNCHANGED <<concurrency, permits, queue>>

\* -------------------------------------------------- BaseNode.run, directly

\* the node run is called on
DirectNode == "A"

\* part_002:43-47 run on a plain node: a warning when the node has successors, then
\* _run on the object itself, which calls prep.
DirectRun ==
    /\ orchPc = "idle"
    /\ orchPc' = "running"
    /\ trace' = IF SuccessorKeys(DirectNode) # {}
                THEN <<Ev("warn", DirectNode, Undefined)>>
                ELSE <<>>
    /\ ResetRun("prep", heap[DirectNode].curRetry)
    /\ UNCHANGED <<cfgVars, flowVars, build, start, flowPost, heap, frames, runRet, flowRet,
                   orchErr, sideVars>>

\* part_002:38 prep of the node (with RunPrep)
DirectPrep ==
    /\ orchPc = "running"
    /\ trace' = Append(trace, Ev("prep", DirectNode, Undefined))
    /\ UNCHANGED <<build, start, flowPost, heap, frames, runRet, orchPc, flowRet, orchErr, sideVars>>

\* part_002:40 post of the node returns action (with RunPost)
DirectPost(action) ==
    /\ orchPc = "running"
    /\ runRet' = action
    /\ trace' = Append(trace, Ev("post", DirectNode, action))
    /\ UNCHANGED <<build, start, flowPost, heap, frames, orchPc, flowRet, orchErr, sideVars>>

\* (variant: run goes on to the successor the action selects)
DirectFollow ==
    /\ orchPc = "running"
    /\ runPc = "done"
    /\ orchPc' = "ended"
    /\ flowRet' = runRet
    /\ heap' = [heap EXCEPT ![DirectNode].curRetry = curRetry]
    /\ trace' = IF GetNextNode(DirectNode, runRet) # NoNode
                THEN Append(trace, Ev("prep", GetNextNode(DirectNode, runRet), Undefined))
                ELSE trace
    /\ UNCHANGED <<nodeVars, flowVars, build, start, flowPost, frames, runRet, orchErr, sideVars>>

\* part_002:47 `return this._run(shared)`: run returns what post returned; the
\* counter stays in the object run was called on.
DirectReturn ==
    /\ orchPc = "running"
    /\ runPc = "done"
    /\ orchPc' = "ended"
    /\ flowRet' = runRet
    /\ heap' = [heap EXCEPT ![DirectNode].curRetry = curRetry]
    /\ UNCHANGED <<nodeVars, flowVars, build, start, flowPost, frames, trace, runRet, orchErr,
                   sideVars>>

\* part_002:39 and 47 _exec throws: run rejects with the error
DirectThrow ==
    /\ orchPc = "running"
    /\ runPc = "failed"
    /\ orchPc' = "failed"
    /\ orchErr' = runErr
    /\ heap' = [heap EXCEPT ![DirectNode].curRetry = curRetry]
    /\ UNCHANGED <<nodeVars, flowVars, build, start, flowPost, frames, trace, runRet, flowRet,
                   sideVars>>

\* ------------------------------------------------------------ specifications

RetryCounts == 1..MaxRetries
WaitSeconds == {0, 1}
Fallbacks == {"default", "value"}

\* no Flow is run
InitNoOrch ==
    /\ build = "none"
    /\ start = [f \in Flows |-> NoNode]
    /\ flowPost = "default"
    /\ heap = [a \in Addrs |-> [params |-> NoParams, curRetry |-> 0]]
    /\ frames = <<>>
    /\ trace = <<>>
    /\ runRet = Undefined
    /\ orchPc = "off"
    /\ flowRet = Undefined
    /\ orchErr = None

\* the parallel batch flow program is not run
InitNoFan ==
    /\ fanBatches = <<>>
    /\ fanPc = "off"
    /\ fanTrav = <<>>
    /\ sharedStorage = [processed_numbers |-> <<>>, total |-> Undefined]

\* no Semaphore is used
InitNoSem ==
    /\ concurrency = 0
    /\ permits = 0
    /\ queue = <<>>
    /\ semTask = <<>>

InjectOff ==
    /\ injImpl = "part_002"
    /\ injFlow = NoParams
    /\ injOwn = FALSE
    /\ injPc = "off"
    /\ injCurr = NoNode
    /\ injP = NoParams
    /\ injSeen = <<>>

InitNoInject ==
    /\ InitNoFan
    /\ InitNoSem
    /\ InjectOff

BatchOff ==
    /\ bfMode = "seq"
    /\ bfNested = FALSE
    /\ bfBase = NoParams
    /\ bfSets = <<>>
    /\ bfInner = <<>>
    /\ bfPc = "off"
    /\ bfTrav = <<>>
    /\ bfSeen = <<>>
    /\ bfShared = <<>>
    /\ bfResult = NoResult
    /\ bfOut = [post |-> FALSE, execRes |-> NoResult, err |-> <<>>]

InitNoBatch ==
    /\ InitNoInject
    /\ BatchOff

\* no ParallelBatchFlow is run
TwinOff ==
    /\ twPc = [t \in Traversals |-> "off"]
    /\ twAct = [t \in Traversals |-> NewAct(0)]
    /\ twSeen = [t \in Traversals |-> [exec |-> None, curRetry |-> 0]]

InitNoTwin ==
    /\ InitNoBatch
    /\ TwinOff

\* the cycle program is not run
CycleOff ==
    /\ shared = [defined |-> FALSE, current |-> 0]
    /\ numberArg = 0
    /\ addArg = 0
    /\ applied = 0

InitNoCycle ==
    /\ InitNoTwin
    /\ CycleOff

InitRun ==
    /\ InitNoOrch
    /\ InitNoCycle
    /\ maxRetries \in RetryCounts
    /\ wait \in WaitSeconds
    /\ fallback \in Fallbacks
    /\ curRetry = 0
    /\ act = <<>>
    /\ results = <<>>
    /\ collected = <<>>
    /\ order = <<>>
    /\ agg = "none"
    /\ aggErr = None
    /\ runPc = "prep"
    /\ prepCalls = 0
    /\ postCalls = 0
    /\ postSeen = [prep |-> 0, exec |-> None, curRetry |-> 0]
    /\ runErr = None
    /\ successors = [n \in Nodes |-> [l \in Labels |-> NoNode]]
    /\ wired = 0
    /\ overwrites = 0
    /\ flowPc = "off"
    /\ curr = NoNode
    /\ prev = NoNode
    /\ lastResult = Undefined
    /\ flowWarnings = 0

\* a plain Node
InitNode ==
    /\ kind = "node"
    /\ prepRes \in 1..MaxPrep
    /\ prepAbsent = FALSE
    /\ InitRun

\* a SequentialBatchNode over 0..MaxItems items
InitSeq ==
    /\ kind = "seq"
    /\ prepRes \in {[i \in 1..n |-> i] : n \in 0..MaxItems}
    /\ prepAbsent \in IF prepRes = <<>> THEN BOOLEAN ELSE {FALSE}
    /\ InitRun

\* a ParallelBatchNode over 0..MaxItems items
InitPar ==
    /\ kind = "par"
    /\ prepRes \in {[i \in 1..n |-> i] : n \in 0..MaxItems}
    /\ prepAbsent \in IF prepRes = <<>> THEN BOOLEAN ELSE {FALSE}
    /\ InitRun

NextNode ==
    \/ RunPrep /\ UNCHANGED outerVars
    \/ \E i \in 1..1 : ExecResolve(i) /\ UNCHANGED outerVars
    \/ \E i \in 1..1 : ExecReject(i) /\ UNCHANGED outerVars
    \/ \E i \in 1..1 : TimerFire(i) /\ UNCHANGED outerVars
    \/ \E i \in 1..1 : FallbackSettle(i) /\ UNCHANGED outerVars
    \/ RunPost /\ UNCHANGED outerVars
    \/ RunFail /\ UNCHANGED outerVars

NextSeq ==
    \/ RunPrep /\ UNCHANGED outerVars
    \/ \E i \in 1..MaxItems : ExecResolve(i) /\ UNCHANGED outerVars
    \/ \E i \in 1..MaxItems : ExecReject(i) /\ UNCHANGED outerVars
    \/ \E i \in 1..MaxItems : TimerFire(i) /\ UNCHANGED outerVars
    \/ \E i \in 1..MaxItems : FallbackSettle(i) /\ UNCHANGED outerVars
    \/ SeqCollect /\ UNCHANGED outerVars
    \/ SeqAbort /\ UNCHANGED outerVars
    \/ RunPost /\ UNCHANGED outerVars
    \/ RunFail /\ UNCHANGED outerVars

NextPar ==
    \/ RunPrep /\ UNCHANGED outerVars
    \/ \E i \in 1..MaxItems : ExecResolve(i) /\ UNCHANGED outerVars
    \/ \E i \in 1..MaxItems : ExecReject(i) /\ UNCHANGED outerVars
    \/ \E i \in 1..MaxItems : TimerFire(i) /\ UNCHANGED outerVars
    \/ \E i \in 1..MaxItems : FallbackSettle(i) /\ UNCHANGED outerVars
    \/ \E i \in 1..MaxItems : ParCollect(i) /\ UNCHANGED outerVars
    \/ RunPost /\ UNCHANGED outerVars
    \/ RunFail /\ UNCHANGED outerVars

SpecNode == InitNode /\ [][NextNode]_vars
SpecSeq == InitSeq /\ [][NextSeq]_vars
SpecPar == InitPar /\ [][NextPar]_vars

\* a node of any of the three classes is run
InitAny == InitNode \/ InitSeq \/ InitPar

NextAny ==
    \/ RunPrep /\ UNCHANGED outerVars
    \/ \E i \in 1..MaxItems : ExecResolve(i) /\ UNCHANGED outerVars
    \/ \E i \in 1..MaxItems : ExecReject(i) /\ UNCHANGED outerVars
    \/ \E i \in 1..MaxItems : TimerFire(i) /\ UNCHANGED outerVars
    \/ \E i \in 1..MaxItems : FallbackSettle(i) /\ UNCHANGED outerVars
    \/ SeqCollect /\ UNCHANGED outerVars
    \/ SeqAbort /\ UNCHANGED outerVars
    \/ \E i \in 1..MaxItems : ParCollect(i) /\ UNCHANGED outerVars
    \/ RunPost /\ UNCHANGED outerVars
    \/ RunFail /\ UNCHANGED outerVars

SpecAny == InitAny /\ [][NextAny]_vars

\* a graph is wired with calls of next and on, then a Flow over it is run
InitFlow ==
    /\ InitNoOrch
    /\ InitNoCycle
    /\ kind = "none"
    /\ maxRetries = 1
    /\ wait = 0
    /\ fallback = "default"
    /\ prepRes = 0
    /\ prepAbsent = FALSE
    /\ curRetry = 0
    /\ act = <<>>
    /\ results = <<>>
    /\ collected = <<>>
    /\ order = <<>>
    /\ agg = "none"
    /\ aggErr = None
    /\ runPc = "off"
    /\ prepCalls = 0
    /\ postCalls = 0
    /\ postSeen = [prep |-> 0, exec |-> None, curRetry |-> 0]
    /\ runErr = None
    /\ successors = [n \in Nodes |-> [l \in Labels |-> NoNode]]
    /\ wired = 0
    /\ overwrites = 0
    /\ flowPc = "wiring"
    /\ curr = NoNode
    /\ prev = NoNode
    /\ lastResult = Undefined
    /\ flowWarnings = 0

NextFlow ==
    \/ \E src \in Nodes, tgt \in Nodes, action \in Labels : Connect(src, tgt, action) /\ UNCHANGED outerVars
    \/ FlowStart /\ UNCHANGED outerVars
    \/ \E action \in Actions : FlowStep(action) /\ UNCHANGED outerVars

SpecFlow == InitFlow /\ [][NextFlow]_vars

\* a program builds its objects, then run is called on the Flow top; every plain
\* node is a Node(maxRetries, wait) with the same arguments
InitOrch ==
    /\ InitNoCycle
    /\ kind = "node"
    /\ maxRetries \in RetryCounts
    /\ wait \in WaitSeconds
    /\ fallback \in Fallbacks
    /\ prepRes \in 1..MaxPrep
    /\ prepAbsent = FALSE
    /\ curRetry = 0
    /\ act = <<>>
    /\ results = <<>>
    /\ collected = <<>>
    /\ order = <<>>
    /\ agg = "none"
    /\ aggErr = None
    /\ runPc = "off"
    /\ prepCalls = 0
    /\ postCalls = 0
    /\ postSeen = [prep |-> 0, exec |-> None, curRetry |-> 0]
    /\ runErr = None
    /\ build \in Builds
    /\ successors = Wiring(build)
    /\ wired = 0
    /\ overwrites = 0
    /\ flowPc = "off"
    /\ curr = NoNode
    /\ prev = NoNode
    /\ lastResult = Undefined
    /\ flowWarnings = 0
    /\ start = StartOf(build)
    /\ flowPost \in {"default", "passes"}
    /\ heap = [a \in Addrs |-> [params |-> IF a \in Objs THEN OwnParams(a) ELSE NoParams,
                                 curRetry |-> 0]]
    /\ frames = <<>>
    /\ trace = <<>>
    /\ runRet = Undefined
    /\ orchPc = "idle"
    /\ flowRet = Undefined
    /\ orchErr = None

NextOrch ==
    \/ FlowRun /\ UNCHANGED sideVars
    \/ OrchBegin /\ UNCHANGED sideVars
    \/ RunPrep /\ NodePrep /\ UNCHANGED sideVars
    \/ \E i \in 1..1 : ExecResolve(i) /\ UNCHANGED outerVars
    \/ \E i \in 1..1 : ExecReject(i) /\ UNCHANGED outerVars
    \/ \E i \in 1..1 : TimerFire(i) /\ UNCHANGED outerVars
    \/ \E i \in 1..1 : FallbackSettle(i) /\ UNCHANGED outerVars
    \/ \E action \in Actions : RunPost /\ NodePost(action) /\ UNCHANGED sideVars
    \/ RunFail /\ UNCHANGED outerVars
    \/ OrchResume /\ UNCHANGED sideVars
    \/ FlowPost /\ UNCHANGED sideVars
    \/ OrchThrow /\ UNCHANGED sideVars

SpecOrch == InitOrch /\ [][NextOrch]_vars

\* the cycle program: NumberNode(v) and AddNode(-d) are built, the graph is wired
\* and a Flow starting at n1 is about to run
InitCycle ==
    /\ InitNoOrch
    /\ kind = "none"
    /\ maxRetries = 1
    /\ wait = 0
    /\ fallback = "default"
    /\ prepRes = 0
    /\ prepAbsent = FALSE
    /\ curRetry = 0
    /\ act = <<>>
    /\ results = <<>>
    /\ collected = <<>>
    /\ order = <<>>
    /\ agg = "none"
    /\ aggErr = None
    /\ runPc = "off"
    /\ prepCalls = 0
    /\ postCalls = 0
    /\ postSeen = [prep |-> 0, exec |-> None, curRetry |-> 0]
    /\ runErr = None
    /\ successors = CycleWiring
    /\ wired = 0
    /\ overwrites = 0
    /\ flowPc = "wiring"
    /\ curr = NoNode
    /\ prev = NoNode
    /\ lastResult = Undefined
    /\ flowWarnings = 0
    /\ shared = [defined |-> FALSE, current |-> 0]
    /\ numberArg \in -1..MaxStart
    /\ addArg \in {-d : d \in 1..MaxDec}
    /\ applied = 0
    /\ InitNoTwin

NextCycle ==
    \/ FlowStart /\ UNCHANGED outerVars
    \/ CycleStep

\* the loop of _orch is straight-line code: a run that can take a turn takes it
SpecCycle == InitCycle /\ [][NextCycle]_vars /\ WF_vars(NextCycle)

\* a ParallelBatchFlow over the one plain node A, a Node(maxRetries, wait), whose
\* prep returned MaxTraversals param sets
InitTwin ==
    /\ InitNoCycle
    /\ kind = "node"
    /\ maxRetries \in RetryCounts
    /\ wait \in WaitSeconds
    /\ fallback \in Fallbacks
    /\ prepRes \in 1..MaxPrep
    /\ prepAbsent = FALSE
    /\ curRetry = 0
    /\ act = <<>>
    /\ results = <<>>
    /\ collected = <<>>
    /\ order = <<>>
    /\ agg = "none"
    /\ aggErr = None
    /\ runPc = "off"
    /\ prepCalls = 0
    /\ postCalls = 0
    /\ postSeen = [prep |-> 0, exec |-> None, curRetry |-> 0]
    /\ runErr = None
    /\ build = "twin"
    /\ successors = Wiring(build)
    /\ wired = 0
    /\ overwrites = 0
    /\ flowPc = "off"
    /\ curr = NoNode
    /\ prev = NoNode
    /\ lastResult = Undefined
    /\ flowWarnings = 0
    /\ start = [f \in Flows |-> IF f = "top" THEN TwinStart ELSE NoNode]
    /\ flowPost = "default"
    /\ heap = [a \in Addrs |-> [params |-> IF a \in Objs THEN OwnParams(a) ELSE NoParams,
                                 curRetry |-> 0]]
    /\ frames = <<>>
    /\ trace = <<>>
    /\ runRet = Undefined
    /\ orchPc = "idle"
    /\ flowRet = Undefined
    /\ orchErr = None

NextTwin ==
    \/ TwinLaunch
    \/ \E t \in Traversals : TwinPrep(t)
    \/ \E t \in Traversals : TwinExecResolve(t)
    \/ \E t \in Traversals : TwinExecReject(t)
    \/ \E t \in Traversals : TwinTimerFire(t)
    \/ \E t \in Traversals : TwinFallbackSettle(t)
    \/ \E t \in Traversals : TwinPost(t)
    \/ \E t \in Traversals : TwinFail(t)

SpecTwin == InitTwin /\ [][NextTwin]_vars

\* run is called on the plain node A of a graph in which A has two labelled
\* successors, one default successor, or none
InitDirect ==
    /\ InitOrch
    /\ build \in {"branch", "levels", "nostart"}
    /\ flowPost = "default"

NextDirect ==
    \/ DirectRun
    \/ RunPrep /\ DirectPrep
    \/ \E i \in 1..1 : ExecResolve(i) /\ UNCHANGED outerVars
    \/ \E i \in 1..1 : ExecReject(i) /\ UNCHANGED outerVars
    \/ \E i \in 1..1 : TimerFire(i) /\ UNCHANGED outerVars
    \/ \E i \in 1..1 : FallbackSettle(i) /\ UNCHANGED outerVars
    \/ \E action \in Actions : RunPost /\ DirectPost(action)
    \/ RunFail /\ UNCHANGED outerVars
    \/ DirectReturn
    \/ DirectThrow

SpecDirect == InitDirect /\ [][NextDirect]_vars

\* the params of the batch flow, and the param sets a prep returns
BaseChoices == {NoParams, [own |-> "base", run |-> "base"]}
SetChoices == {[own |-> Undefined, run |-> "bp1"], [own |-> "bp2", run |-> "bp2"]}
\* the lists of param sets the prep of the inner batch flow can return
InnerLists ==
    {<<>>, <<[own |-> Undefined, run |-> "in1"]>>,
     <<[own |-> Undefined, run |-> "in1"], [own |-> Undefined, run |-> "in2"]>>}
SeqsUpTo(S, n) == UNION {[1..m -> S] : m \in 0..n}

\* run is called on a batch flow over A -> B, or (sequential only) over an inner
\* sequential batch flow over A -> B
InitBatch ==
    /\ InitNoOrch
    /\ InitNoInject
    /\ shared = [defined |-> FALSE, current |-> 0]
    /\ numberArg = 0
    /\ addArg = 0
    /\ applied = 0
    /\ twPc = [t \in Traversals |-> "off"]
    /\ twAct = [t \in Traversals |-> NewAct(0)]
    /\ twSeen = [t \in Traversals |-> [exec |-> None, curRetry |-> 0]]
    /\ kind = "node"
    /\ maxRetries = 1
    /\ wait = 0
    /\ fallback = "default"
    /\ prepRes = 1
    /\ prepAbsent = FALSE
    /\ curRetry = 0
    /\ act = <<>>
    /\ results = <<>>
    /\ collected = <<>>
    /\ order = <<>>
    /\ agg = "none"
    /\ aggErr = None
    /\ runPc = "off"
    /\ prepCalls = 0
    /\ postCalls = 0
    /\ postSeen = [prep |-> 0, exec |-> None, curRetry |-> 0]
    /\ runErr = None
    /\ successors = [n \in Objs |-> [l \in Labels |->
                        IF n = "A" /\ l = DEFAULT_ACTION THEN "B" ELSE NoNode]]
    /\ wired = 0
    /\ overwrites = 0
    /\ flowPc = "off"
    /\ curr = NoNode
    /\ prev = NoNode
    /\ lastResult = Undefined
    /\ flowWarnings = 0
    /\ bfMode \in {"seq", "par"}
    /\ bfNested \in IF bfMode = "seq" THEN BOOLEAN ELSE {FALSE}
    /\ bfBase \in BaseChoices
    /\ bfSets \in SeqsUpTo(SetChoices, MaxSets)
    /\ bfInner \in IF bfNested THEN InnerLists ELSE {<<>>}
    /\ bfPc = "idle"
    /\ bfTrav = [t \in DOMAIN bfSets |-> NewTrav]
    /\ bfSeen = <<>>
    /\ bfShared = <<>>
    /\ bfResult = NoResult
    /\ bfOut = [post |-> FALSE, execRes |-> NoResult, err |-> <<>>]

NextBatch ==
    \/ BatchRun
    \/ \E t \in SetIdx : SeqStart(t)
    \/ \E t \in SetIdx : \E action \in BatchActions : NodeReturn(t, action)
    \/ \E t \in SetIdx : NodeThrow(t)
    \/ \E t \in SetIdx : InnerLoop(t)
    \/ BatchPost

SpecBatch == InitBatch /\ [][NextBatch]_vars

\* P of flow.setParams(P)
GivenChoices == [Keys -> {Undefined, "P"}]

\* flow.setParams(P) was called on a Flow over A -> B -> C of either class, the
\* nodes having params of their own or none; flow.run(shared) is called next
InitInject ==
    /\ InitNoFan
    /\ InitNoSem
    /\ InitNoOrch
    /\ shared = [defined |-> FALSE, current |-> 0]
    /\ numberArg = 0
    /\ addArg = 0
    /\ applied = 0
    /\ twPc = [t \in Traversals |-> "off"]
    /\ twAct = [t \in Traversals |-> NewAct(0)]
    /\ twSeen = [t \in Traversals |-> [exec |-> None, curRetry |-> 0]]
    /\ bfMode = "seq"
    /\ bfNested = FALSE
    /\ bfBase = NoParams
    /\ bfSets = <<>>
    /\ bfInner = <<>>
    /\ bfPc = "off"
    /\ bfTrav = <<>>
    /\ bfSeen = <<>>
    /\ bfShared = <<>>
    /\ bfResult = NoResult
    /\ bfOut = [post |-> FALSE, execRes |-> NoResult, err |-> <<>>]
    /\ kind = "node"
    /\ maxRetries = 1
    /\ wait = 0
    /\ fallback = "default"
    /\ prepRes = 1
    /\ prepAbsent = FALSE
    /\ curRetry = 0
    /\ act = <<>>
    /\ results = <<>>
    /\ collected = <<>>
    /\ order = <<>>
    /\ agg = "none"
    /\ aggErr = None
    /\ runPc = "off"
    /\ prepCalls = 0
    /\ postCalls = 0
    /\ postSeen = [prep |-> 0, exec |-> None, curRetry |-> 0]
    /\ runErr = None
    /\ successors = Wiring("levels")
    /\ wired = 0
    /\ overwrites = 0
    /\ flowPc = "off"
    /\ curr = NoNode
    /\ prev = NoNode
    /\ lastResult = Undefined
    /\ flowWarnings = 0
    /\ injImpl \in {"part_002", "index"}
    /\ injFlow \in GivenChoices
    /\ injOwn \in BOOLEAN
    /\ injPc = "idle"
    /\ injCurr = NoNode
    /\ injP = NoParams
    /\ injSeen = <<>>

NextInject ==
    \/ InjectRun
    \/ \E action \in BatchActions : \E wkey \in HookWrites : InjectStep(action, wkey)

SpecInject == InitInject /\ [][NextInject]_vars

\* a node object on which nothing runs
InitQuietNode ==
    /\ kind = "node"
    /\ maxRetries = 1
    /\ wait = 0
    /\ fallback = "default"
    /\ prepRes = 1
    /\ prepAbsent = FALSE
    /\ curRetry = 0
    /\ act = <<>>
    /\ results = <<>>
    /\ collected = <<>>
    /\ order = <<>>
    /\ agg = "none"
    /\ aggErr = None
    /\ runPc = "off"
    /\ prepCalls = 0
    /\ postCalls = 0
    /\ postSeen = [prep |-> 0, exec |-> None, curRetry |-> 0]
    /\ runErr = None

\* the loop of the Flow of the first claims is not run
InitQuietFlow ==
    /\ wired = 0
    /\ overwrites = 0
    /\ flowPc = "off"
    /\ curr = NoNode
    /\ prev = NoNode
    /\ lastResult = Undefined
    /\ flowWarnings = 0

\* one of the programs was wired; run is called on the parent Flow
InitIndex ==
    /\ InitNoCycle
    /\ InitQuietNode
    /\ InitQuietFlow
    /\ build \in IndexBuilds
    /\ successors = IndexWiring(build)
    /\ start = [f \in Flows |-> NoNode]
    /\ flowPost = "default"
    /\ heap = [a \in Addrs |-> [params |-> NoParams, curRetry |-> 0]]
    /\ frames = <<>>
    /\ trace = <<>>
    /\ runRet = Undefined
    /\ orchPc = "idle"
    /\ flowRet = Undefined
    /\ orchErr = None

NextIndex ==
    \/ IndexRun
    \/ \E action \in Actions : IndexStep(action)
    \/ IndexEnter
    \/ IndexReturn

SpecIndex == InitIndex /\ [][NextIndex]_vars

\* the successors and params of the node before clone() is called: A.next(B) and
\* A.setParams(...) of the test
BeforeClone ==
    [a \in Addrs |-> [l \in Labels |-> IF a = CloneOf /\ l = DEFAULT_ACTION THEN "B" ELSE NoNode]]

InitClone ==
    /\ InitNoCycle
    /\ InitQuietNode
    /\ InitQuietFlow
    /\ build = "none"
    /\ successors = BeforeClone
    /\ start = [f \in Flows |-> NoNode]
    /\ flowPost = "default"
    /\ heap = [a \in Addrs |-> [params |-> IF a = CloneOf THEN OwnParams(a) ELSE NoParams,
                                 curRetry |-> 0]]
    /\ frames = <<>>
    /\ trace = <<>>
    /\ runRet = Undefined
    /\ orchPc = "idle"
    /\ flowRet = Undefined
    /\ orchErr = None

\* the nodes handed to next / on of the clone
CloneTargets == {"B", "C", "f1"}

NextClone ==
    \/ CloneNode
    \/ \E params \in GivenChoices : CloneSetParams(params)
    \/ \E action \in Labels : \E tgt \in CloneTargets : CloneOn(action, tgt)
    \/ \E tgt \in CloneTargets : CloneNext(tgt)

SpecClone == InitClone /\ [][NextClone]_vars

InitAsync ==
    /\ InitNoCycle
    /\ InitQuietNode
    /\ InitQuietFlow
    /\ build \in AsyncBuilds
    /\ successors = AsyncWiring(build)
    /\ start = AsyncStartOf(build)
    /\ flowPost = "default"
    /\ heap = [a \in Addrs |-> [params |-> NoParams, curRetry |-> 0]]
    /\ frames = <<>>
    /\ trace = <<>>
    /\ runRet = Undefined
    /\ orchPc = "idle"
    /\ flowRet = Undefined
    /\ orchErr = None

NextAsync ==
    \/ AsyncRun
    \/ \E action \in Actions : AsyncStep(action)
    \/ AsyncEnter
    \/ AsyncReturn

SpecAsync == InitAsync /\ [][NextAsync]_vars

\* a BatchNode of part_017 over 0..MaxItems items
InitItems ==
    /\ InitSeq
    /\ ~prepAbsent

NextItems ==
    \/ RunPrep /\ UNCHANGED outerVars
    \/ \E i \in 1..MaxItems : ExecResolve(i) /\ UNCHANGED outerVars
    \/ \E i \in 1..MaxItems : ItemReject(i) /\ UNCHANGED outerVars
    \/ SeqCollect /\ UNCHANGED outerVars
    \/ SeqAbort /\ UNCHANGED outerVars
    \/ RunPost /\ UNCHANGED outerVars
    \/ RunFail /\ UNCHANGED outerVars

SpecItems == InitItems /\ [][NextItems]_vars

\* none of the programs of the sections above is run
InitOthersOff ==
    /\ InitNoOrch
    /\ InitQuietNode
    /\ InitQuietFlow
    /\ successors = [n \in Nodes |-> [l \in Labels |-> NoNode]]
    /\ CycleOff
    /\ TwinOff
    /\ BatchOff
    /\ InjectOff

\* the variables the parallel batch flow program leaves alone
fanOuter == <<nodeVars, flowVars, orchVars, cycleVars, twinVars, bfVars, injVars, semVars>>

\* runAsync is called on the flow, the store holding 1..MaxSets batches
InitFan ==
    /\ InitOthersOff
    /\ InitNoSem
    /\ fanBatches \in SeqsUpTo(NumberLists, MaxSets) \ {<<>>}
    /\ fanPc = "idle"
    /\ fanTrav = <<>>
    /\ sharedStorage = [processed_numbers |-> <<>>, total |-> Undefined]

NextFan ==
    \/ FanRun /\ UNCHANGED fanOuter
    \/ \E b \in 1..MaxSets : b \in DOMAIN fanTrav /\ ItemTimer(b) /\ UNCHANGED fanOuter
    \/ \E b \in 1..MaxSets : b \in DOMAIN fanTrav /\ ProcessorPost(b) /\ UNCHANGED fanOuter
    \/ \E b \in 1..MaxSets : b \in DOMAIN fanTrav /\ AggregatorPrep(b) /\ UNCHANGED fanOuter
    \/ \E b \in 1..MaxSets : b \in DOMAIN fanTrav /\ AggregatorTimer(b) /\ UNCHANGED fanOuter
    \/ \E b \in 1..MaxSets : b \in DOMAIN fanTrav /\ AggregatorPost(b) /\ UNCHANGED fanOuter
    \/ FanPost /\ UNCHANGED fanOuter

SpecFan == InitFan /\ [][NextFan]_vars

\* the variables the Semaphore leaves alone
semOuter == <<nodeVars, flowVars, orchVars, cycleVars, twinVars, bfVars, injVars, fanVars>>

\* a Semaphore of 1..MaxItems permits (test_flow_basic.test.ts:172-173), no task
\* having called acquire yet
InitSem ==
    /\ InitOthersOff
    /\ InitNoFan
    /\ concurrency \in 1..MaxItems
    /\ permits = concurrency
    /\ queue = <<>>
    /\ semTask = [t \in SemTasks |-> [pc |-> "idle", acquires |-> 0]]

NextSem ==
    \/ \E t \in SemTasks : Acquire(t) /\ UNCHANGED semOuter
    \/ \E t \in SemTasks : Release(t) /\ UNCHANGED semOuter
    \/ \E t \in SemTasks : Resume(t) /\ UNCHANGED semOuter

SpecSem == InitSem /\ [][NextSem]_vars

\* the nested runs, with nodes whose prep or post may throw
NextRaise ==
    \/ NextOrch
    \/ PrepThrow /\ NodePrep /\ UNCHANGED sideVars
    \/ PostThrow /\ NodePostThrown /\ UNCHANGED sideVars

SpecRaise == InitOrch /\ [][NextRaise]_vars

\* ------------------------------------------------------------------ claims

\* the retry call of activation i is past its calls of exec
PastExec(i) == i \in DOMAIN act /\ act[i].pc \in {"fallback", "returned", "thrown"}
\* ... and no call of exec succeeded
AllAttemptsFailed(i) == PastExec(i) /\ act[i].ret.tag # "ok"
\* the retry call of activation i succeeded on its k-th call of exec
SucceededOn(i, k) == i \in DOMAIN act /\ act[i].ret = ExecValue(act[i].arg, k)

\* C1: a plain Node with maxRetries = N whose exec fails on every attempt calls exec
\* exactly N times, then execFallback exactly once with the prep result and the error
\* of the N-th attempt; with the default execFallback that error leaves run and post
\* is never called.
C1_ExhaustedRetries ==
    /\ 1 \in DOMAIN act => act[1].attempts <= maxRetries
    /\ (1 \in DOMAIN act /\ act[1].fbCalls > 0) => AllAttemptsFailed(1)
    /\ AllAttemptsFailed(1) =>
         /\ act[1].attempts = maxRetries
         /\ act[1].fbCalls = 1
         /\ act[1].fbArg = prepRes
         /\ act[1].fbExc = ExecError(prepRes, maxRetries)
         /\ fallback = "default" =>
              /\ postCalls = 0
              /\ runPc \in {"exec", "failed"}
              /\ act[1].pc = "thrown" => act[1].err = ExecError(prepRes, maxRetries)
              /\ runPc = "failed" => runErr = ExecError(prepRes, maxRetries)
              /\ (act[1].pc = "thrown" /\ runPc = "exec") => ENABLED RunFail

C1_Witness ==
    /\ kind = "node"
    /\ maxRetries = 3
    /\ fallback = "default"
    /\ runPc = "failed"
    /\ act[1].attempts = 3
    /\ act[1].fbCalls = 1

\* C2: a plain Node whose exec fails on attempts 1..k-1 and succeeds on attempt k <= N
\* calls exec exactly k times and execFallback never; post sees curRetry = k-1 and
\* receives the result of the k-th attempt.
C2_SuccessOnKth ==
    \A k \in 1..MaxRetries :
        SucceededOn(1, k) =>
            /\ k <= maxRetries
            /\ act[1].attempts = k
            /\ act[1].fbCalls = 0
            /\ curRetry = k - 1
            /\ runPc \in {"exec", "done"}
            /\ runPc = "exec" => ENABLED RunPost
            /\ runPc = "done" =>
                 /\ postCalls = 1
                 /\ postSeen.curRetry = k - 1
                 /\ postSeen.exec = ExecValue(prepRes, k)
                 /\ postSeen.prep = prepRes

C2_Witness ==
    /\ kind = "node"
    /\ maxRetries = 3
    /\ runPc = "done"
    /\ SucceededOn(1, 2)
    /\ postSeen.curRetry = 1

\* C3: in a ParallelBatchNode with maxRetries = N every item has the retry logic of a
\* Node of its own: an item none of whose attempts succeeded was attempted exactly N
\* times and then handed to execFallback exactly once, and an item that succeeded
\* did so on one of its N attempts, whatever the other items did meanwhile.
C3_PerItemRetry ==
    \A i \in DOMAIN act :
        /\ AllAttemptsFailed(i) => (act[i].attempts = maxRetries /\ act[i].fbCalls = 1)
        /\ act[i].ret.tag = "ok" => (act[i].attempts = act[i].ret.att /\ act[i].fbCalls = 0)

\* C4: when the aggregate of a ParallelBatchNode is fulfilled, the result array has one
\* entry per item and entry j is what the retry call of item j returned, whatever the
\* order in which the calls completed; post receives that array.
C4_ResultPlacement ==
    (kind = "par" /\ agg = "resolved") =>
        /\ Len(results) = NumItems
        /\ \A j \in 1..NumItems :
             /\ results[j] = act[j].ret
             /\ results[j].tag \in {"ok", "fb"} => results[j].arg = Items[j]
        /\ runPc = "done" => postSeen.exec = [j \in 1..NumItems |-> act[j].ret]

C4_Witness ==
    /\ kind = "par"
    /\ runPc = "done"
    /\ collected = <<2, 1>>
    /\ results[1].arg = 1
    /\ results[2].arg = 2

\* C5: in a sequential batch node the first exec of item j+1 is not called before the
\* retry call of item j, its fallback included, has returned; items are first
\* called in input order and the results are in input order.
C5_SequentialOrder ==
    kind = "seq" =>
        /\ \A j \in DOMAIN act : (j > 1 /\ act[j].pc # "new") => act[j - 1].pc = "returned"
        /\ \A k \in DOMAIN order : order[k] = k
        /\ \A j \in DOMAIN act : act[j].pc # "new" <=> j \in DOMAIN order
        /\ \A k \in DOMAIN results :
             /\ results[k] = act[k].ret
             /\ results[k].tag \in {"ok", "fb"}
             /\ results[k].arg = Items[k]
        /\ agg = "resolved" => (Len(results) = NumItems /\ Len(order) = NumItems)

C5_Witness ==
    /\ kind = "seq"
    /\ NumItems = 2
    /\ runPc = "done"
    /\ act[1].fbCalls = 1
    /\ act[2].attempts = 2

\* C6: in a sequential batch node, once item j fails terminally (retries used up, the
\* fallback raises) the batch fails with that error: exec is called for no later
\* item, no result array is returned and post is not called.
C6_SequentialFailFast ==
    kind = "seq" =>
        \A j \in DOMAIN act :
            act[j].pc = "thrown" =>
                /\ act[j].attempts = maxRetries
                /\ \A m \in DOMAIN act : m > j => (act[m].pc = "new" /\ act[m].attempts = 0)
                /\ agg \in {"pending", "rejected"}
                /\ agg = "pending" => ENABLED SeqAbort
                /\ agg = "rejected" => aggErr = act[j].err
                /\ Len(results) = j - 1
                /\ postCalls = 0
                /\ runPc \in {"exec", "failed"}
                /\ runPc = "failed" => runErr = act[j].err

C6_Witness ==
    /\ kind = "seq"
    /\ NumItems = 2
    /\ runPc = "failed"
    /\ act[1].pc = "thrown"
    /\ act[2].pc = "new"

\* item i failed terminally: its retries are used up and its fallback raised
TerminallyFailed(i) ==
    i \in DOMAIN act /\ act[i].pc = "thrown" /\ act[i].attempts = maxRetries

\* C7: the aggregate of a ParallelBatchNode fails if and only if at least one item
\* failed terminally (retries used up, fallback raised); the error then reaches the
\* caller of run and post is never called.
C7_AggregateFailsIffItemFails ==
    kind = "par" =>
        /\ agg = "rejected" => \E i \in DOMAIN act : TerminallyFailed(i)
        /\ \A i \in Collected : TerminallyFailed(i) => agg = "rejected"
        /\ agg = "rejected" => (postCalls = 0 /\ runPc \in {"exec", "failed"})
        /\ runPc = "failed" => runErr = aggErr

\* a step of activation i taken after the aggregate failed goes on with the retry
\* loop of item i: i is not stopped, is retried while it has attempts left, and
\* leaves the loop by a result of exec, by its fallback after the N-th attempt, or
\* by an error
SiblingStep(i) ==
    (agg = "rejected" /\ act[i].pc \in {"exec", "wait"}) =>
        /\ act[i].pc = "exec" => (ENABLED ExecResolve(i) /\ ENABLED ExecReject(i))
        /\ act[i].pc = "wait" => ENABLED TimerFire(i)
        /\ act'[i].pc = "returned" => act'[i].ret.tag \in {"ok", "fb"}
        /\ act'[i].pc = "fallback" => act'[i].attempts = maxRetries

\* C8: in a ParallelBatchNode whose aggregate has failed, no sibling of the failed
\* item is cancelled: each one that was started goes on with its own retry loop and
\* completes by succeeding, by falling back or by failing.
C8_SiblingsRunToCompletion ==
    [][kind = "par" => \A i \in DOMAIN act : SiblingStep(i)]_vars

\* C9: when the post of the node that ran returned action a and that node has a
\* successor registered under a, the node run next is that successor.
C9_FollowsReturnedAction ==
    (flowPc \in {"running", "ended"} /\ prev # NoNode /\ lastResult \in SuccessorKeys(prev)) =>
        /\ curr = successors[prev][lastResult]
        /\ flowPc = "running"

C9_Witness ==
    /\ flowPc = "running"
    /\ prev = "n1"
    /\ lastResult = "negative"
    /\ successors["n1"]["positive"] = "n2"
    /\ successors["n1"]["negative"] = "n3"
    /\ curr = "n3"

\* C10: the transition looks up successors[action], with 'default' for an undefined
\* action; the traversal ends when nothing is found, and a warning is emitted if and
\* only if the lookup failed and the node has at least one successor.
C10_LookupAndWarning ==
    (flowPc \in {"running", "ended"} /\ prev # NoNode) =>
        /\ lastResult = Undefined => curr = successors[prev][DEFAULT_ACTION]
        /\ lastResult \in Labels => curr = successors[prev][lastResult]
        /\ flowPc = "ended" <=> curr = NoNode
        /\ flowWarnings \in {0, 1}
        /\ flowWarnings = 1 <=> (curr = NoNode /\ SuccessorKeys(prev) # {})

C10_Witness ==
    /\ flowPc = "ended"
    /\ flowWarnings = 1
    /\ lastResult = "negative"
    /\ successors[prev]["positive"] # NoNode

\* C20: in the retry loop of a single Node with wait > 0 there is a backoff wait after
\* every failed attempt but the last allowed one, none after a success or after the
\* last failed attempt: success after f failures makes f waits, an exhausted run
\* makes maxRetries - 1, and maxRetries = 1 gives one attempt and no wait.
C20_BackoffBetweenAttempts ==
    (kind = "node" /\ 1 \in DOMAIN act) =>
        /\ wait = 0 => act[1].waits = 0
        /\ wait > 0 =>
             /\ act[1].pc = "wait" => (act[1].waits = act[1].attempts /\ act[1].attempts < maxRetries)
             /\ act[1].pc # "wait" => act[1].waits = act[1].attempts - 1
             /\ \A k \in 1..MaxRetries : SucceededOn(1, k) => act[1].waits = k - 1
             /\ AllAttemptsFailed(1) => act[1].waits = maxRetries - 1
             /\ maxRetries = 1 => (act[1].attempts = 1 /\ act[1].waits = 0)

C20_Witness ==
    /\ kind = "node"
    /\ wait > 0
    /\ maxRetries = 3
    /\ runPc = "done"
    /\ SucceededOn(1, 3)
    /\ act[1].waits = 2

\* the curRetry field of the canonical object n: the counter in use when the running
\* node object is n itself, the stored one otherwise
CanonCurRetry(n) ==
    IF orchPc = "running" /\ Top.pc = "node" /\ RunningAddr = n THEN curRetry ELSE heap[n].curRetry

\* C12: a Flow run never writes a canonical object of the graph: while it runs and
\* after it ended or was aborted by an error, with retries and revisits in a cycle,
\* params, successors (and start) and curRetry of every constructed object are as the
\* program built them; only the per-turn clones are written.
C12_CanonicalUntouched ==
    /\ successors = Wiring(build)
    /\ start = StartOf(build)
    /\ \A n \in Objs :
         /\ heap[n].params = OwnParams(n)
         /\ CanonCurRetry(n) = 0

C12_Witness ==
    /\ build = "branch"
    /\ orchPc = "failed"
    /\ \E j, k \in DOMAIN trace : j < k /\ trace[j] = Ev("prep", "A", Undefined) /\ trace[k] = trace[j]
    /\ heap[Clones[1]].curRetry = 1
    /\ heap[Clones[1]].params # OwnParams("A")

\* C14: running a Flow that has no start node fails with an error and runs no node
\* (here: the start-node Flow of part_002 / part_003 with start undefined).
C14_StartlessFlowFails ==
    start["top"] = NoNode =>
        /\ orchPc # "ended"
        /\ \A k \in DOMAIN trace : trace[k].obj \notin PlainNodes

\* the calls of post of plain nodes, as positions of the trace
NodePosts == {k \in DOMAIN trace : trace[k].ev = "post" /\ trace[k].obj \in PlainNodes}
\* what the post of the plain node that ran last returned
LastAction == trace[CHOOSE k \in NodePosts : \A j \in NodePosts : j <= k].ret

\* C15: flow.run(shared) returns what the post of the last node of the traversal
\* (the node at which no transition matched) returned.
C15_RunReturnsLastAction ==
    (orchPc = "ended" /\ NodePosts # {}) => flowRet = LastAction

\* C16: when a Flow whose post is not overridden is run as a node of an outer Flow,
\* the action the outer Flow looks up the next node with is the final action of the
\* inner traversal's last node, not what the inner Flow's own post returned.
C16_OuterUsesInnerFinalAction ==
    (orchPc = "running" /\ Top.pc = "resumed" /\ flowPost = "default" /\ NodePosts # {}) =>
        runRet = LastAction

\* the nodes reached from the set S by following successors
Succs(S) == S \cup ({successors[n][l] : n \in S, l \in Labels} \ {NoNode})
RECURSIVE Closure(_)
Closure(S) == IF Succs(S) = S THEN S ELSE Closure(Succs(S))
\* the objects that run inside the traversal of the Flow f, nested Flows included
RECURSIVE Inside(_)
Inside(f) ==
    IF start[f] = NoNode
    THEN {}
    ELSE LET R == Closure({start[f]})
         IN  R \cup UNION {Inside(g) : g \in R \cap Flows}
\* the positions of the trace at which ev of object n was called
Calls(ev, n) == {k \in DOMAIN trace : trace[k].ev = ev /\ trace[k].obj = n}

\* C17: when a Flow runs as a node of an outer Flow, its prep is called exactly once,
\* before the prep of its first inner node, and its post exactly once, after the
\* post of its last inner node and before any later node of the outer Flow starts.
C17_FlowHooksAroundTraversal ==
    \A f \in Flows \ {"top"} :
        LET P == Calls("prep", f)
            Q == Calls("post", f)
        IN  /\ Cardinality(P) <= 1
            /\ Cardinality(Q) <= 1
            /\ Q # {} => P # {}
            /\ \A k \in DOMAIN trace :
                 trace[k].obj \in Inside(f) =>
                     /\ \E i \in P : i < k
                     /\ \A j \in Q : k < j
            /\ \A k \in DOMAIN trace :
                 (trace[k].obj \notin Inside(f) \cup {f} /\ \E i \in P : i < k) =>
                     \E j \in Q : j < k
            /\ \A i \in P : i < Len(trace) => trace[i + 1] = Ev("prep", start[f], Undefined)
            /\ \A j \in Q :
                 /\ trace[j - 1].ev = "post"
                 /\ trace[j - 1].obj \in Inside(f)
                 /\ j < Len(trace) => trace[j + 1].obj \notin Inside(f)

C17_Witness ==
    /\ build = "docs"
    /\ orchPc = "ended"
    /\ Len(trace) = 10
    /\ trace[2] = Ev("prep", "f1", Undefined)
    /\ trace[3] = Ev("prep", "A", Undefined)
    /\ trace[6].obj = "B" /\ trace[6].ev = "post"
    /\ trace[7].obj = "f1" /\ trace[7].ev = "post"
    /\ trace[8] = Ev("prep", "C", Undefined)

IsNodePrep(e) == e.ev = "prep" /\ e.obj \in PlainNodes
IsNodePost(e) == e.ev = "post" /\ e.obj \in PlainNodes
\* the plain nodes in the order in which their prep / their post was called
ObjsOf(evs) == [k \in DOMAIN evs |-> evs[k].obj]
PrepOrder == ObjsOf(SelectSeq(trace, IsNodePrep))
PostOrder == ObjsOf(SelectSeq(trace, IsNodePost))
IsPrefix(a, b) == Len(a) <= Len(b) /\ a = SubSeq(b, 1, Len(a))
\* every post of a plain node so far asked for the default transition
AllDefault == \A k \in NodePosts : ActionKey(trace[k].ret) = DEFAULT_ACTION

\* C18: with chain A -> B inside an inner Flow that is the start of the parent and is
\* connected to C, with several levels of nesting, and with a Flow as successor of a
\* plain node, a run of the parent executes A, B and C each exactly once in that order.
C18_NestedChainOrder ==
    (build \in {"docs", "levels", "nested", "chain"} /\ AllDefault) =>
        /\ IsPrefix(PrepOrder, <<"A", "B", "C">>)
        /\ IsPrefix(PostOrder, PrepOrder)
        /\ Len(PrepOrder) <= Len(PostOrder) + 1
        /\ orchPc = "ended" => PostOrder = <<"A", "B", "C">>

C18_Witness ==
    /\ build = "nested"
    /\ orchPc = "ended"
    /\ PrepOrder = <<"A", "B", "C">>
    /\ PostOrder = <<"A", "B", "C">>
    /\ Len(trace) = 12

\* the retry call of the running plain node returned what execFallback returned
FellBack == kind = "node" /\ 1 \in DOMAIN act /\ act[1].pc = "returned" /\ act[1].ret.tag = "fb"

\* C19 (the node): with execFallback overridden to return a value, a run whose
\* attempts all failed does not fail; post is called exactly once, with the fallback
\* value as exec result, and sees curRetry + 1 = maxRetries.
C19_FallbackReachesPost ==
    /\ fallback = "value" => (runPc # "failed" /\ orchPc # "failed")
    /\ (fallback = "value" /\ AllAttemptsFailed(1) /\ act[1].pc # "fallback") => FellBack
    /\ FellBack =>
         /\ act[1].ret = FallbackValue(prepRes, ExecError(prepRes, maxRetries))
         /\ curRetry + 1 = maxRetries
         /\ runPc \in {"exec", "done"}
         /\ runPc = "exec" => (postCalls = 0 /\ ENABLED RunPost)
         /\ runPc = "done" =>
              /\ postCalls = 1
              /\ postSeen.exec = act[1].ret
              /\ postSeen.prep = prepRes
              /\ postSeen.curRetry + 1 = maxRetries
              /\ runErr = None

\* C19 (the Flow): the step that follows such a post goes to the successor that the
\* action returned by post selects, or ends the traversal when there is none.
C19_ContinuesAfterFallback ==
    (FellBack /\ runPc = "done" /\ orchPc = "running" /\ frames' # frames) =>
        LET next == successors[Running][ActionKey(runRet)]
        IN  /\ frames'[Depth].last = runRet
            /\ frames'[Depth].curr = next
            /\ next = NoNode => frames'[Depth].pc = "post"
            /\ next \in PlainNodes => (frames'[Depth].pc = "node" /\ runPc' = "prep")
            /\ next \in Flows => (Len(frames') = Depth + 1 /\ frames'[Depth + 1].of = next)

\* C19: a Node whose execFallback returns a value completes after its retries are
\* used up, hands the fallback value to post once with curRetry + 1 = maxRetries,
\* and inside a Flow the traversal goes on to the successor selected by that post.
C19_FallbackValue == []C19_FallbackReachesPost /\ [][C19_ContinuesAfterFallback]_vars

C19_Witness ==
    /\ build = "branch"
    /\ orchPc = "running"
    /\ maxRetries = 3
    /\ FellBack
    /\ runPc = "done"
    /\ act[1].attempts = 3
    /\ postSeen.curRetry = 2
    /\ Running = "A"
    /\ runRet = "negative"
    /\ ENABLED OrchResume

\* the first negative value of v, v - d, v - 2d, ... and the number of decrements
\* that lead to it
RECURSIVE FirstNegative(_, _)
FirstNegative(v, d) == IF v < 0 THEN v ELSE FirstNegative(v - d, d)
RECURSIVE Decrements(_, _)
Decrements(v, d) == IF v < 0 THEN 0 ELSE 1 + Decrements(v - d, d)

\* every decrement so far was applied to the store exactly once
C11_AppliedOnce ==
    /\ shared.defined => shared.current = numberArg + applied * addArg
    /\ applied <= Decrements(numberArg, -addArg)
    /\ flowPc = "ended" =>
         /\ shared.current = FirstNegative(numberArg, -addArg)
         /\ applied = Decrements(numberArg, -addArg)
         /\ prev = "noOp"

\* C11: the Flow over n1(set v) -> check -> ['positive': subtract d -> check,
\* 'negative': exit] terminates for every start value v and decrement d > 0 with the
\* store at the first negative value of v, v-d, v-2d, ..., every iteration's
\* decrement applied exactly once.
C11_CycleTerminates == []C11_AppliedOnce /\ <>(flowPc = "ended")

C11_Witness ==
    /\ numberArg = 10
    /\ addArg = -3
    /\ flowPc = "ended"
    /\ shared.current = -2
    /\ applied = 4

\* C13: when the same canonical Node is the start of several traversals, interleaved
\* by a ParallelBatchFlow, each traversal has a curRetry sequence of its own: what
\* its post sees is the number of its own failed attempts, whatever the attempts of
\* the other traversals, and each runs the full retry loop of a single Node.
C13_IndependentRetryCounters ==
    \A t \in Traversals :
        /\ twAct[t].attempts <= maxRetries
        /\ twAct[t].pc = "exec" => TwinRetry(t) = twAct[t].attempts - 1
        /\ twAct[t].pc \in {"fallback", "thrown"} => twAct[t].attempts = maxRetries
        /\ twAct[t].pc = "returned" => twAct[t].ret.tag \in {"ok", "fb"}
        /\ twPc[t] = "done" =>
             /\ twSeen[t].exec = twAct[t].ret
             /\ twSeen[t].exec.tag = "ok" => twSeen[t].curRetry = twSeen[t].exec.att - 1
             /\ twSeen[t].exec.tag = "fb" => twSeen[t].curRetry = maxRetries - 1
             /\ twSeen[t].curRetry = twAct[t].attempts - 1

C13_Witness ==
    /\ maxRetries = 3
    /\ twPc[1] = "done"
    /\ twPc[2] = "done"
    /\ twSeen[1].curRetry = 0
    /\ twSeen[2].curRetry = 2
    /\ twAct[1].attempts = 1
    /\ twAct[2].attempts = 3

\* C21: one run of a Node calls prep exactly once, then exec one or more times, then
\* post at most once, in that order; every call of exec (and of execFallback) gets
\* the value prep returned, and post gets that value with the final exec or
\* fallback result.
C21_LifecycleOrder ==
    kind = "node" =>
        /\ runPc = "prep" => (prepCalls = 0 /\ act = <<>> /\ postCalls = 0)
        /\ runPc # "prep" =>
             /\ prepCalls = 1
             /\ act[1].attempts >= 1
             /\ act[1].arg = prepRes
             /\ act[1].fbCalls > 0 => act[1].fbArg = prepRes
             /\ act[1].pc = "returned" =>
                  (act[1].ret.arg = prepRes /\ act[1].ret.tag \in {"ok", "fb"})
        /\ runPc \in {"exec", "failed"} => postCalls = 0
        /\ runPc = "done" =>
             /\ postCalls = 1
             /\ act[1].pc = "returned"
             /\ postSeen.prep = prepRes
             /\ postSeen.exec = act[1].ret

C21_Witness ==
    /\ kind = "node"
    /\ prepRes = 2
    /\ runPc = "done"
    /\ act[1].attempts = 3
    /\ act[1].ret = ExecValue(2, 3)
    /\ postSeen.prep = 2
    /\ postSeen.exec = ExecValue(2, 3)

\* C23: a sequential or parallel batch node whose prep returns an empty list, or no
\* list, gets an empty result array with no call of exec or execFallback, and post
\* is still called once, with that empty array.
C23_EmptyBatch ==
    (kind \in {"seq", "par"} /\ NumItems = 0) =>
        /\ act = <<>>
        /\ runPc \in {"prep", "exec", "done"}
        /\ runPc = "exec" => (agg = "resolved" /\ results = <<>> /\ ENABLED RunPost)
        /\ runPc = "done" => (postCalls = 1 /\ postSeen.exec = <<>>)

C23_Witness ==
    /\ kind = "par"
    /\ prepAbsent
    /\ runPc = "done"
    /\ postCalls = 1
    /\ postSeen.exec = <<>>
    /\ act = <<>>

\* C30: for a single Node or a sequential batch node with maxRetries >= 1, curRetry
\* is within [0, maxRetries) whenever exec is running or awaited again after a
\* backoff, inside execFallback and afterwards inside post, whatever attempts fail.
C30_RetryIndexInRange ==
    kind \in {"node", "seq"} =>
        /\ curRetry >= 0
        /\ (\E i \in DOMAIN act : act[i].pc \in {"exec", "wait", "fallback"}) => curRetry < maxRetries
        /\ runPc \in {"exec", "done", "failed"} => curRetry < maxRetries
        /\ runPc = "done" => (postSeen.curRetry >= 0 /\ postSeen.curRetry < maxRetries)

C30_Witness ==
    /\ kind = "seq"
    /\ maxRetries = 3
    /\ NumItems = 2
    /\ runPc = "done"
    /\ act[1].attempts = 3
    /\ act[2].attempts = 2
    /\ postSeen.curRetry = 1

\* C22: node.run(shared) runs the lifecycle of that node exactly once and returns
\* the action its post returned; no successor of the node is run, whatever the
\* action and whatever successors are registered.
C22_DirectRunStaysLocal ==
    /\ \A k \in DOMAIN trace : trace[k].obj = DirectNode
    /\ Cardinality(Calls("prep", DirectNode)) <= 1
    /\ Cardinality(Calls("post", DirectNode)) <= 1
    /\ orchPc = "ended" =>
         /\ prepCalls = 1
         /\ postCalls = 1
         /\ Cardinality(Calls("prep", DirectNode)) = 1
         /\ trace[Len(trace)] = Ev("post", DirectNode, flowRet)
         /\ flowRet = runRet
    /\ orchPc = "failed" => postCalls = 0

C22_Witness ==
    /\ build = "branch"
    /\ successors[DirectNode]["positive"] = "B"
    /\ orchPc = "ended"
    /\ flowRet = "positive"
    /\ trace[1].ev = "warn"
    /\ Len(trace) = 3

\* `{ ...a, ...b }` key by key
Overlay(a, b) == [k \in Keys |-> IF b[k] = Undefined THEN a[k] ELSE b[k]]
\* the node runs of the traversal of param set t, in order
RunsOf(t) == SelectSeq(bfSeen, LAMBDA e : e.t = t)

C26_ParamsPerTraversal ==
    ~bfNested =>
      \A k \in DOMAIN bfSeen :
        LET e == bfSeen[k]
        IN  /\ e.p = Overlay(bfBase, bfSets[e.t])
            /\ \A key \in Keys :
                 /\ bfSets[e.t][key] # Undefined => e.p[key] = bfSets[e.t][key]
                 /\ e.p[key] \in {bfBase[key], bfSets[e.t][key]}

C26_Witness ==
    /\ bfMode = "par"
    /\ bfBase = [own |-> "base", run |-> "base"]
    /\ Len(bfSets) = 2
    /\ Len(bfSeen) = 4
    /\ bfSeen[1] = [t |-> 2, j |-> 0, node |-> "A", p |-> [own |-> "bp2", run |-> "bp2"]]
    /\ bfSeen[2] = [t |-> 1, j |-> 0, node |-> "A", p |-> [own |-> "base", run |-> "bp1"]]
    /\ bfSeen[4].t = 2

\* C27: with a batch flow nested in a batch flow, the nodes of every innermost
\* traversal have the outer flow's params overlaid with the outer set and then
\* the inner set of the combination being processed, and every combination is
\* processed.
C27_NestedParams ==
    bfNested =>
      /\ \A k \in DOMAIN bfSeen :
           LET e == bfSeen[k]
           IN  /\ e.j \in DOMAIN bfInner
               /\ e.p = Overlay(Overlay(bfBase, bfSets[e.t]), bfInner[e.j])
               /\ e.j = bfTrav[e.t].j \/ bfTrav[e.t].j > e.j
      /\ bfPc = "ended" =>
           \A t \in SetIdx : \A j \in DOMAIN bfInner :
             \E k \in DOMAIN bfSeen : bfSeen[k].t = t /\ bfSeen[k].j = j /\ bfSeen[k].node = "A"

C27_Witness ==
    /\ bfNested
    /\ bfBase = NoParams
    /\ Len(bfSets) = 2
    /\ Len(bfInner) = 2
    /\ bfPc = "ended"
    /\ \E k \in DOMAIN bfSeen :
         bfSeen[k] = [t |-> 2, j |-> 2, node |-> "B", p |-> [own |-> "bp2", run |-> "in2"]]
    /\ \E k \in DOMAIN bfSeen :
         bfSeen[k] = [t |-> 1, j |-> 1, node |-> "A", p |-> [own |-> Undefined, run |-> "in1"]]

\* what C29 says of every state: a failed traversal has made run reject, post is
\* not called, and the sets after the failed one of a sequential flow are not begun
C29_Aborted ==
    \A t \in SetIdx : bfTrav[t].pc = "failed" =>
      /\ bfPc = "failed"
      /\ bfOut.err # <<>>
      /\ ~bfOut.post
      /\ bfMode = "seq" => /\ bfOut.err[1] = t
                           /\ \A u \in SetIdx : u > t => bfTrav[u].pc = "wait"

\* what C29 says of every step: a failed traversal runs no further node, a failed
\* sequential flow runs nothing more, and the writes to the shared store stay
C29_NothingAfter ==
    /\ \A t \in SetIdx : bfTrav[t].pc = "failed" =>
         /\ bfTrav'[t] = bfTrav[t]
         /\ RunsOf(t)' = RunsOf(t)
    /\ (bfMode = "seq" /\ bfPc = "failed") => UNCHANGED <<bfTrav, bfSeen, bfShared>>
    /\ IsPrefix(bfShared, bfShared')
    /\ (\E t \in SetIdx : bfTrav[t].pc # "failed" /\ bfTrav'[t].pc = "failed") =>
         bfShared' = bfShared

\* C29: a terminal failure of a node aborts the traversal at that node: the
\* error reaches the caller of run, no later node of the traversal and no later
\* param set of a sequential batch flow is run, and the shared-store writes made
\* before stay.
C29_FailureAborts == []C29_Aborted /\ [][C29_NothingAfter]_vars

C29_Witness ==
    /\ bfMode = "seq"
    /\ ~bfNested
    /\ Len(bfSets) = 2
    /\ bfPc = "failed"
    /\ bfOut.err = <<1, 0, "B">>
    /\ bfShared = << <<1, 0, "A">> >>
    /\ bfTrav[2].pc = "wait"

\* C28: in every Flow class, after flow.setParams(P) the next flow.run(shared)
\* runs every node of the traversal with params that hold every key and value
\* of P, whatever params the node was given directly.
C28_FlowParamsReachNodes ==
    \A k \in DOMAIN injSeen : \A key \in Keys :
      injFlow[key] # Undefined => injSeen[k].p[key] = injFlow[key]

\* (the same of the start-node Flow of part_002 / part_003 alone)
C28_StartFlowParamsReachNodes ==
    (injImpl = "part_002" /\ \A k \in DOMAIN injSeen : injSeen[k].wrote = "none") =>
      \A k \in DOMAIN injSeen : \A key \in Keys :
        injFlow[key] # Undefined => injSeen[k].p[key] = injFlow[key]

\* C31: the trailing `return null` of the retry loop is never reached: every retry
\* call of an item of a ParallelBatchNode ends with a value of exec or of
\* execFallback or with an error, never with null, and this.curRetry never
\* exceeds maxRetries - 1, whatever the wait and the interleaving.
C31_NoSilentNull ==
    kind = "par" =>
      /\ \A i \in DOMAIN act : act[i].pc = "returned" => act[i].ret.tag \in {"ok", "fb"}
      /\ \A i \in DOMAIN act : act[i].ret # Null
      /\ curRetry <= maxRetries - 1

\* C32: every node of a traversal runs on a clone with a params map of its own:
\* a key a hook adds to or changes in this.params during the run of one node is
\* not seen by a later node of the traversal.
C32_ParamsNotShared ==
    \A k \in DOMAIN injSeen : \A l \in DOMAIN injSeen :
      (k < l /\ injSeen[k].wrote # "none") =>
        injSeen[l].p[injSeen[k].wrote] = injSeen[1].p[injSeen[k].wrote]

\* the runs of plain nodes so far, in order
RunOrder == SelectSeq(trace, LAMBDA e : e.ev = "run")

\* C33: a Flow f1 of index.ts wired with f1.next(A), then connected with
\* f1.next(B) and installed in a parent Flow, still starts at A: the parent
\* runs the chain of f1 from A exactly once and then continues with B.
C33_EntryKeptAfterNext ==
    (build = "sample" /\ orchPc = "ended") =>
      /\ Cardinality(Calls("run", "A")) = 1
      /\ RunOrder[1].obj = "A"
      /\ \E k \in Calls("run", "B") : \A j \in Calls("run", "A") : j < k

\* C34: clone() of index.ts returns a distinct object with equal params and
\* successors that is independent of the original: setParams, next and on
\* called on the clone never change the params or successors of the original,
\* and getNextNode on the clone reads the successors of the clone.
C34_CloneIndependent ==
    orchPc = "cloned" =>
      /\ TheClone # CloneOf
      /\ heap[CloneOf].params = OwnParams(CloneOf)
      /\ successors[CloneOf] = BeforeClone[CloneOf]
      /\ \A action \in Actions :
           GetNextNodeOf(TheClone, action) = successors[TheClone][ActionKey(action)]

\* C35: an AsyncFlow of part_003 used as a node of another AsyncFlow (as start
\* node or as successor) is run when the outer flow reaches it: its traversal
\* runs to its end without raising and the outer flow goes on.
C35_NestedAsyncFlowRuns ==
    /\ orchPc # "failed"
    /\ \A k \in DOMAIN trace : trace[k].ev # "throw"
    /\ orchPc = "ended" =>
         \A k \in Calls("enter", "f1") : \E l \in Calls("leave", "f1") : k < l

\* C36: the post hook of a Flow always receives null as execRes, never the result
\* of the inner traversal (a post that hands on its execRes shows what it got).
C36_FlowPostGetsNull ==
    (flowPost = "passes" /\ start["top"] \in PlainNodes) =>
      \A k \in DOMAIN trace :
        (trace[k].ev = "post" /\ trace[k].obj \in Flows) => trace[k].ret = NoResult

\* C37: BatchNode.exec of part_017 treats every item as ParallelBatchNode.exec
\* does, with Node.exec's retries and fallback: an item is given up only after
\* maxRetries failed attempts and a call of the fallback, so that both classes
\* return the same array or both fail on the same pattern of failures.
C37_SequentialRetriesLikeParallel ==
    \A i \in DOMAIN act :
      act[i].pc = "thrown" =>
        /\ act[i].attempts = maxRetries
        /\ act[i].fbCalls = 1
        /\ fallback = "default"

\* C38: when the run of the AsyncParallelBatchFlow over processor -> aggregator has
\* ended, processed_numbers holds the doubled items of every batch and total is
\* the sum of the doubled items of all batches, whatever the order in which the
\* timers and continuations of the concurrent traversals ran.
AllBatches == [b \in DOMAIN fanBatches |-> Doubled(fanBatches[b])]
C39_HoldersWithinPermits ==
    Cardinality({t \in SemTasks : Acquired(t)}) <= concurrency

\* C40: an error raised by prep or post of a node is neither retried nor handed to
\* execFallback, whatever maxRetries is: the call that threw was the only call of
\* that hook, exec was not called at all when prep threw, and the run of the Flow
\* is rejected with that error without another prep or post being called.
HookErrors == {PrepError, PostError}
C40_OnlyExecIsRetried ==
    /\ runErr = PrepError =>
         /\ runPc = "failed"
         /\ prepCalls = 1
         /\ postCalls = 0
         /\ act = <<>>
         /\ trace[Len(trace)].ev = "prep"
    /\ runErr = PostError =>
         /\ runPc = "failed"
         /\ prepCalls = 1
         /\ postCalls = 1
         /\ act[1].pc = "returned"
         /\ act[1].fbExc \notin HookErrors
         /\ trace[Len(trace)].ev = "post"
    /\ (runErr \in HookErrors /\ orchPc # "running") => (orchPc = "failed" /\ orchErr = runErr)
    /\ orchErr \in HookErrors => (runErr = orchErr /\ frames = <<>> /\ flowRet = Undefined)
C40_Witness ==
    /\ orchPc = "failed"
    /\ orchErr = PrepError
    /\ maxRetries > 1
    /\ fallback = "value"
    /\ Len(trace) > 2

====
